---- MODULE Spec2Model ----
(***************************************************************************)
(* A model of the place-resolution pipeline of matchbook:                  *)
(*   - the geocoding client and the orchestrator smartGeocode              *)
(*     (src/src/lib/google-maps-scraper.ts, lines 578-872),                *)
(*   - the browser session manager and the two page scrapers               *)
(*     (src/src/lib/google-maps-scraper.ts, lines 18-498),                 *)
(*   - the URL classifier and the redirect resolvers                       *)
(*     (src/src/lib/maps.ts, src/src/app/actions/collections.ts).          *)
(* JavaScript strings are TLA+ strings; a value that may be null,          *)
(* undefined or NaN is an option: <<>> when absent, <<v>> when present.    *)
(***************************************************************************)
EXTENDS Integers, Sequences, FiniteSets, TLC

VARIABLES
  \* ---- smartGeocode (one call) ----
  sgPc,          \* position of the call: "start", "reverse", "forward1", "forward2", "done"
  options,       \* the SmartGeocodeOptions of the call
  sgResult,      \* the value the call resolved with (option), once sgPc = "done"
  requests,      \* the geocoding requests issued so far: kind, argument, start time
  returns,       \* what each finished request returned to smartGeocode (option of PlaceInfo)
  now,           \* the clock, in milliseconds
  \* ---- browser session manager and scrape calls ----
  browserInstance,  \* the shared handle: 0 (null) or the browser it refers to
  sinceLastUsed,    \* Date.now() - browserLastUsed, in ms, capped above the timeout
  browsers,         \* the state of each browser process puppeteer.launch has made
  timers,           \* the pending checkAndClose timer armed by each launch: ms left
  calls,            \* the scrape calls: position, acquired browser, open page, outcome
  \* ---- redirect resolvers (one call) ----
  rsPc,          \* position of the call: "start", "fetching", "done"
  rsCall,        \* the resolver called and its argument shortUrl
  rsFinal,       \* response.url of the HEAD request, once it has resolved
  rsResult,      \* what the call returned, once rsPc = "done"
  \* ---- text functions of maps.ts (one call) ----
  fnPc,          \* position of the call: "start", "done"
  fnCall,        \* the function called and its argument
  fnResult,      \* what the call returned, once fnPc = "done"
  \* ---- geocoding client (one call) ----
  gcPc,          \* position of the call: "start", "done"
  gcCall,        \* the lookup called, its argument and what the service does
  gcResult,      \* what the call returned, once gcPc = "done"
  \* ---- the store and the createPlace calls ----
  collections,   \* the rows of table collections, oldest first; a row's id is its index
  places,        \* the rows of table places, in insertion order
  creates,       \* the createPlace calls: position, input, collection chosen, result
  \* ---- paste handler of Layout (one paste) ----
  psPc,          \* position of the handler: "start", "geocoding", "done"
  psPaste,       \* the pasted text and what the geocoding service does
  psLocals,      \* the handler's detection.url, urlPlaceName and coordinates
  psOffer,       \* the ExtractedPlace the handler opened the modal with (option)
  \* ---- the try block of one scrape call, wait by wait ----
  scPc,          \* "goto", "consent", "waitH1", "waitAddress", "evaluate", "done"
  scCall,        \* the variant, the page as rendered and the URL it ends on
  scLog,         \* what happened: navigations made, outcome of each wait, evaluated
  scResult       \* what the caller gets, once scPc = "done"

geoVars == <<sgPc, options, sgResult, requests, returns, now>>
browserVars == <<browserInstance, sinceLastUsed, browsers, timers, calls>>

resolverVars == <<rsPc, rsCall, rsFinal, rsResult>>

textVars == <<fnPc, fnCall, fnResult>>

clientVars == <<gcPc, gcCall, gcResult>>

storeVars == <<collections, places, creates>>

pasteVars == <<psPc, psPaste, psLocals, psOffer>>

scrapeVars == <<scPc, scCall, scLog, scResult>>

vars ==
  <<geoVars, browserVars, resolverVars, textVars, clientVars, storeVars, pasteVars,
    scrapeVars>>

\* what the actions of one component leave alone
NotGeo == <<browserVars, resolverVars, textVars, clientVars, storeVars, pasteVars, scrapeVars>>
NotBrowser == <<geoVars, resolverVars, textVars, clientVars, storeVars, pasteVars, scrapeVars>>
NotResolver == <<geoVars, browserVars, textVars, clientVars, storeVars, pasteVars, scrapeVars>>
NotText == <<geoVars, browserVars, resolverVars, clientVars, storeVars, pasteVars, scrapeVars>>
NotClient == <<geoVars, browserVars, resolverVars, textVars, storeVars, pasteVars, scrapeVars>>
NotStore == <<geoVars, browserVars, resolverVars, textVars, clientVars, pasteVars, scrapeVars>>
NotPaste == <<geoVars, browserVars, resolverVars, textVars, clientVars, storeVars, scrapeVars>>
NotScrape ==
  <<geoVars, browserVars, resolverVars, textVars, clientVars, storeVars, pasteVars>>

(***************************************************************************)
(* Options and strings                                                     *)
(***************************************************************************)
None == <<>>
Some(v) == <<v>>
IsSome(o) == o /= <<>>
Val(o) == o[1]

Char(s, i) == SubSeq(s, i, i)

\* the value of a const: the one element of a singleton
The(S) == CHOOSE x \in S : TRUE

\* the least of a set of positions
Least(S) == CHOOSE k \in S : \A j \in S : k <= j

\* s has the literal lit at position i
MatchAt(s, i, lit) ==
  /\ i >= 1
  /\ i + Len(lit) - 1 <= Len(s)
  /\ SubSeq(s, i, i + Len(lit) - 1) = lit

\* String.prototype.indexOf, 1-based; 0 when lit does not occur
IndexOf(s, lit) ==
  LET hits == {i \in 1..Len(s) : MatchAt(s, i, lit)}
  IN IF hits = {} THEN 0 ELSE CHOOSE i \in hits : \A j \in hits : i <= j

Includes(s, lit) == IndexOf(s, lit) /= 0

\* s.split(lit)[0]
SplitFirst(s, lit) ==
  IF Includes(s, lit) THEN SubSeq(s, 1, IndexOf(s, lit) - 1) ELSE s

IsSpace(c) == c \in {" ", "\t", "\n"}

\* String.prototype.trim
Trim(s) ==
  LET keep == {i \in 1..Len(s) : ~IsSpace(Char(s, i))}
  IN IF keep = {} THEN ""
     ELSE LET lo == CHOOSE i \in keep : \A j \in keep : i <= j
              hi == CHOOSE i \in keep : \A j \in keep : i >= j
          IN SubSeq(s, lo, hi)

Digits == {"0", "1", "2", "3", "4", "5", "6", "7", "8", "9"}

DigitVal(c) ==
  CASE c = "0" -> 0 [] c = "1" -> 1 [] c = "2" -> 2 [] c = "3" -> 3
    [] c = "4" -> 4 [] c = "5" -> 5 [] c = "6" -> 6 [] c = "7" -> 7
    [] c = "8" -> 8 [] c = "9" -> 9

\* a number is kept as an integer, in units of 10^-FloatDecimals
FloatDecimals == 5

RECURSIVE Pow10(_)
Pow10(n) == IF n <= 0 THEN 1 ELSE 10 * Pow10(n - 1)

FloatScale == Pow10(FloatDecimals)

RECURSIVE DigitsValue(_)
DigitsValue(s) ==
  IF Len(s) = 0 THEN 0
  ELSE 10 * DigitsValue(SubSeq(s, 1, Len(s) - 1)) + DigitVal(Char(s, Len(s)))

\* the length of the longest run of digits of s that starts at position i
DigitRun(s, i) ==
  LET stops == {j \in i..Len(s) : Char(s, j) \notin Digits}
  IN IF stops = {} THEN Len(s) - i + 1
     ELSE (CHOOSE j \in stops : \A k \in stops : j <= k) - i

\* parseFloat: the longest prefix [+-]digits[.digits] after leading white
\* space; NaN (None) when there is no digit. Decimals beyond FloatDecimals
\* are dropped.
ParseFloat(str) ==
  LET s == Trim(str)
      neg == MatchAt(s, 1, "-")
      p == IF MatchAt(s, 1, "-") \/ MatchAt(s, 1, "+") THEN 2 ELSE 1
      nInt == DigitRun(s, p)
      hasDot == MatchAt(s, p + nInt, ".")
      nFrac == IF hasDot THEN DigitRun(s, p + nInt + 1) ELSE 0
      used == IF nFrac > FloatDecimals THEN FloatDecimals ELSE nFrac
      intPart == DigitsValue(SubSeq(s, p, p + nInt - 1))
      fracPart == DigitsValue(SubSeq(s, p + nInt + 1, p + nInt + used))
      mag == intPart * FloatScale + fracPart * Pow10(FloatDecimals - used)
  IN IF nInt = 0 /\ nFrac = 0 THEN None
     ELSE Some(IF neg THEN 0 - mag ELSE mag)

(***************************************************************************)
(* Geocoding client: reverseGeocode, forwardGeocode                        *)
(***************************************************************************)
\* One place of a Nominatim answer. A string field the answer does not
\* carry is "" (undefined and "" are both falsy where the code reads them);
\* display_name, lat and lon are options.
NoPlace ==
  [name |-> "", hasAddress |-> FALSE,
   amenity |-> "", building |-> "", shop |-> "", tourism |-> "",
   restaurant |-> "", cafe |-> "", pub |-> "",
   road |-> "", house_number |-> "", suburb |-> "",
   city |-> "", town |-> "", village |-> "", postcode |-> "", country |-> "",
   type |-> "", display_name |-> None, lat |-> None, lon |-> None]

\* a || b || ... || last over strings
RECURSIVE FirstTruthy(_, _)
FirstTruthy(cands, last) ==
  IF cands = <<>> THEN last
  ELSE IF Head(cands) /= "" THEN Head(cands)
  ELSE FirstTruthy(Tail(cands), last)

\* Array.prototype.join
RECURSIVE Join(_, _)
Join(parts, sep) ==
  IF parts = <<>> THEN ""
  ELSE IF Len(parts) = 1 THEN parts[1]
  ELSE parts[1] \o sep \o Join(Tail(parts), sep)

\* the optional field data.address?.f
AddrField(d, v) == IF d.hasAddress THEN v ELSE ""

\* addressParts, as both lookups build it
AddressParts(d) ==
  IF ~d.hasAddress THEN <<>>
  ELSE
    (IF d.house_number /= "" /\ d.road /= "" THEN <<d.house_number \o " " \o d.road>>
     ELSE IF d.road /= "" THEN <<d.road>> ELSE <<>>)
    \o (IF d.suburb /= "" THEN <<d.suburb>> ELSE <<>>)
    \o (LET locality == FirstTruthy(<<d.city, d.town>>, d.village)
        IN IF locality /= "" THEN <<locality>> ELSE <<>>)
    \o (IF d.postcode /= "" THEN <<d.postcode>> ELSE <<>>)
    \o (IF d.country /= "" THEN <<d.country>> ELSE <<>>)

FormattedAddress(d) ==
  IF Len(AddressParts(d)) > 0 THEN Some(Join(AddressParts(d), ", "))
  ELSE d.display_name

ParseOptFloat(o) == IF IsSome(o) THEN ParseFloat(Val(o)) ELSE None

\* (mutant) the building tag is read before the amenity tag
ReverseName_BuildingFirst(d) ==
  FirstTruthy(<<d.name, AddrField(d, d.building), AddrField(d, d.amenity),
                AddrField(d, d.shop), AddrField(d, d.tourism),
                AddrField(d, d.restaurant), AddrField(d, d.cafe),
                AddrField(d, d.pub)>>, "Unnamed Place")

ReverseName(d) ==
  FirstTruthy(<<d.name, AddrField(d, d.amenity), AddrField(d, d.building),
                AddrField(d, d.shop), AddrField(d, d.tourism),
                AddrField(d, d.restaurant), AddrField(d, d.cafe),
                AddrField(d, d.pub)>>, "Unnamed Place")

PlaceInfoOf(d, name) ==
  [name |-> name,
   address |-> FormattedAddress(d),
   displayName |-> d.display_name,
   lat |-> ParseOptFloat(d.lat),
   lng |-> ParseOptFloat(d.lon),
   placeType |-> d.type,
   city |-> FirstTruthy(<<AddrField(d, d.city), AddrField(d, d.town)>>,
                        AddrField(d, d.village)),
   country |-> AddrField(d, d.country)]

\* What the service does with one request: the fetch rejects, it answers
\* with a non-success status, its body is not JSON, or it answers with a
\* body (reverse: one place object; forward: a list of places).
\* (mutant) a non-success status is not tested: the body is read as a place
reverseGeocode_StatusIgnored(coordinates, resp) ==
  CASE resp.outcome = "network_error" -> None
    [] resp.outcome = "http_error" -> Some(PlaceInfoOf(NoPlace, ReverseName(NoPlace)))
    [] resp.outcome = "bad_json" -> None
    [] resp.outcome = "ok" -> Some(PlaceInfoOf(resp.body, ReverseName(resp.body)))

\* reverseGeocode: every failure is null
reverseGeocode(coordinates, resp) ==
  CASE resp.outcome = "network_error" -> None
    [] resp.outcome = "http_error" -> None
    [] resp.outcome = "bad_json" -> None
    [] resp.outcome = "ok" -> Some(PlaceInfoOf(resp.body, ReverseName(resp.body)))

ForwardName(d, address) ==
  FirstTruthy(<<d.name, AddrField(d, d.amenity), AddrField(d, d.building)>>,
              Trim(SplitFirst(address, ",")))

forwardGeocode(address, resp) ==
  CASE resp.outcome = "network_error" -> None
    [] resp.outcome = "http_error" -> None
    [] resp.outcome = "bad_json" -> None
    [] resp.outcome = "ok" ->
         IF Len(resp.body) = 0 THEN None
         ELSE Some(PlaceInfoOf(resp.body[1], ForwardName(resp.body[1], address)))


\* ---- inputs of the model: answers of the geocoding service ----
\* a place at a fixed position, with a choice of name field and tags
TaggedPlaces ==
  {[NoPlace EXCEPT !.hasAddress = TRUE,
                   !.display_name = Some("Bridge Street, London"),
                   !.lat = Some("51.5007"), !.lon = Some("-0.1246"),
                   !.road = "Bridge Street", !.city = "London",
                   !.name = n, !.amenity = a, !.building = b, !.shop = s,
                   !.tourism = t, !.restaurant = r, !.cafe = c, !.pub = p] :
     n \in {"", "Elizabeth Tower"}, a \in {"", "clock"}, b \in {"", "tower"},
     s \in {"", "gifts"}, t \in {"", "attraction"}, r \in {"", "grill"},
     c \in {"", "espresso"}, p \in {"", "tavern"}}

\* a place without address details
BarePlace ==
  [NoPlace EXCEPT !.display_name = Some("Soho, London"),
                  !.lat = Some("51.5136"), !.lon = Some("-0.1365")]

ClientFailures ==
  {[outcome |-> o, body |-> <<>>] : o \in {"network_error", "http_error", "bad_json"}}

\* a reverse answer is one object: a place, or (NoPlace) an error object
\* that has none of the fields of a place
ClientReverseResponses ==
  ClientFailures \cup
  {[outcome |-> "ok", body |-> b] : b \in TaggedPlaces \cup {BarePlace, NoPlace}}

\* a forward answer is a list of places
ClientForwardResponses ==
  ClientFailures \cup
  {[outcome |-> "ok", body |-> l] :
     l \in {<<>>} \cup {<<b>> : b \in {BarePlace} \cup
                          {t \in TaggedPlaces : t.shop = "" /\ t.tourism = "" /\
                             t.restaurant = "" /\ t.cafe = "" /\ t.pub = ""}}}

ClientCalls ==
  {[fn |-> "reverseGeocode", address |-> "", resp |-> r] : r \in ClientReverseResponses} \cup
  {[fn |-> "forwardGeocode", address |-> a, resp |-> r] :
     a \in {"Big Ben, London", "Cafe"}, r \in ClientForwardResponses}

\* the position a reverse lookup is called with
ClientCoordinates == [lat |-> Val(ParseFloat("51.5007")), lng |-> Val(ParseFloat("-0.1246"))]

ReverseGeocode ==
  /\ gcPc = "start"
  /\ gcCall.fn = "reverseGeocode"
  /\ gcPc' = "done"
  /\ gcResult' = reverseGeocode(ClientCoordinates, gcCall.resp)
  /\ UNCHANGED gcCall
  /\ UNCHANGED NotClient

ForwardGeocode ==
  /\ gcPc = "start"
  /\ gcCall.fn = "forwardGeocode"
  /\ gcPc' = "done"
  /\ gcResult' = forwardGeocode(gcCall.address, gcCall.resp)
  /\ UNCHANGED gcCall
  /\ UNCHANGED NotClient

ClientInit ==
  /\ gcPc = "start"
  /\ gcCall \in ClientCalls
  /\ gcResult = None

ClientIdle ==
  /\ gcPc = "done"
  /\ gcCall = [fn |-> "none", address |-> "", resp |-> [outcome |-> "none", body |-> <<>>]]
  /\ gcResult = None

(***************************************************************************)
(* Browser session manager: getBrowser, checkAndClose                      *)
(* Page scraper: scrapeGoogleMapsPlace, expandAndScrapeGoogleMapsUrl       *)
(***************************************************************************)
BROWSER_TIMEOUT == 60000
CHECK_INTERVAL == 10000

\* the scrape calls that may be in flight together, and the browser
\* processes that may be launched in one run
MaxCalls == 2
MaxBrowsers == 2

Calls == 1..MaxCalls
BrowserIds == 1..MaxBrowsers

NoTimer == 0 - 1
NoBrowser == 0

\* browserInstance && browserInstance.connected
Connected == browserInstance /= NoBrowser /\ browsers[browserInstance] = "running"

\* Date.now() - browserLastUsed grows with the clock; values above the
\* timeout behave alike and are kept as one
LongAgo == BROWSER_TIMEOUT + CHECK_INTERVAL
Later(t) == IF t + CHECK_INTERVAL > LongAgo THEN LongAgo ELSE t + CHECK_INTERVAL

\* A call: where it is, which variant it is, the browser getBrowser gave it,
\* whether its page is open, the URL its page ended on (expanding variant),
\* and, once it is over, how it left: "launch", "newPage", "goto",
\* "extract", "close" (the rejecting await), "wrongUrl" or "ok"
IdleCall ==
  [pc |-> "idle", kind |-> "scrape", browser |-> NoBrowser, page |-> FALSE,
   url |-> "", exit |-> "none"]

\* the pages of a browser go with it when its process ends
WithoutPagesOf(cs, b) ==
  [c \in Calls |-> IF cs[c].browser = b THEN [cs[c] EXCEPT !.page = FALSE] ELSE cs[c]]

\* the launches a run has room for
Launched == {b \in BrowserIds : browsers[b] /= "none"}
Launching == {c \in Calls : calls[c].pc = "launching"}

\* the final URLs a navigation may end on
FinalUrls ==
  {"https://www.google.com/maps/place/Big+Ben/@51.5007,-0.1246,17z",
   "https://www.google.co.uk/maps/place/Big+Ben",
   "https://consent.google.com/m?continue=https://www.google.com/maps/place/Big+Ben",
   "https://example.com/"}

\* expandAndScrapeGoogleMapsUrl's test of the final URL
LeadsToGoogleMaps(expandedUrl) ==
  Includes(expandedUrl, "google.com/maps") \/ Includes(expandedUrl, "maps.google")

\* (mutant) the page is closed only when the body of the try block returns
PageAfterExit_OnReturnOnly(c, how) ==
  IF how = "return" THEN FALSE ELSE calls[c].page

\* finally { await page.close() }: whether the call's page is still open
\* after the try block was left by how ("return" or "throw")
PageAfterExit(c, how) == FALSE

\* page.close() rejects when the browser of the page is gone
CloseRejects(c) == browsers[calls[c].browser] /= "running"

\* What the caller gets from a call that is over. scrapeGoogleMapsPlace has
\* no catch: an error, of getBrowser, of newPage, of the body or of
\* page.close(), rejects the call. expandAndScrapeGoogleMapsUrl catches
\* them all and returns a failure object, as it does for a wrong URL.
OutcomeOf(kind, exit) ==
  CASE exit = "none" -> "none"
    [] exit = "ok" -> IF kind = "scrape" THEN "data" ELSE "success"
    [] exit = "wrongUrl" -> "failure"
    [] OTHER -> IF kind = "scrape" THEN "rejected" ELSE "failure"

Outcome(c) == OutcomeOf(calls[c].kind, calls[c].exit)

\* the try block is left at point at, by how ("return" or "throw"), and
\* the finally block runs: the call is over; it keeps its page (and the
\* browser of the page) only if the page was not closed
LeavePage(c, how, at) ==
  LET open == PageAfterExit(c, how)
      exit == IF how = "return" /\ CloseRejects(c) THEN "close" ELSE at
  IN calls' = [calls EXCEPT ![c] =
       [@ EXCEPT !.pc = "done",
                 !.page = open,
                 !.browser = IF open THEN calls[c].browser ELSE NoBrowser,
                 !.url = IF exit \in {"ok", "wrongUrl"} THEN calls[c].url ELSE "",
                 !.exit = exit]]

\* an error before the try block: there is no page to close
ThrowBeforePage(c, at) ==
  calls' = [calls EXCEPT ![c] =
    [@ EXCEPT !.pc = "done", !.browser = NoBrowser, !.exit = at]]

\* A call enters getBrowser: browserLastUsed is stamped; a connected handle
\* is returned at once and newPage() is called on it, otherwise
\* puppeteer.launch is awaited.
Acquire(c) ==
  /\ calls[c].pc \in {"idle", "done"}
  /\ Connected \/ Cardinality(Launched) + Cardinality(Launching) < MaxBrowsers
  /\ \E kind \in {"scrape", "expand"} :
       calls' = [calls EXCEPT ![c] =
         [IdleCall EXCEPT !.kind = kind,
                          !.pc = IF Connected THEN "newPage" ELSE "launching",
                          !.browser = IF Connected THEN browserInstance ELSE NoBrowser]]
  /\ sinceLastUsed' = 0
  /\ UNCHANGED <<browserInstance, browsers, timers>>
  /\ UNCHANGED NotBrowser

\* puppeteer.launch resolves: the handle is overwritten, the idle check is
\* armed, the handle is returned and newPage() is called on it
LaunchOk(c) ==
  /\ calls[c].pc = "launching"
  /\ \E b \in BrowserIds :
       /\ browsers[b] = "none"
       /\ \A a \in BrowserIds : a < b => browsers[a] /= "none"
       /\ browsers' = [browsers EXCEPT ![b] = "running"]
       /\ browserInstance' = b
       /\ timers' = [timers EXCEPT ![b] = BROWSER_TIMEOUT]
       /\ calls' = [calls EXCEPT ![c] = [@ EXCEPT !.pc = "newPage", !.browser = b]]
  /\ UNCHANGED sinceLastUsed
  /\ UNCHANGED NotBrowser

\* (mutant) the handle is assigned and the idle check armed although
\* the launch failed
LaunchFail_HandleAssigned(c) ==
  /\ calls[c].pc = "launching"
  /\ ThrowBeforePage(c, "launch")
  /\ \E b \in BrowserIds :
       /\ browsers[b] = "none"
       /\ \A a \in BrowserIds : a < b => browsers[a] /= "none"
       /\ browsers' = [browsers EXCEPT ![b] = "closed"]
       /\ browserInstance' = b
       /\ timers' = [timers EXCEPT ![b] = BROWSER_TIMEOUT]
  /\ UNCHANGED sinceLastUsed
  /\ UNCHANGED NotBrowser

\* puppeteer.launch rejects: getBrowser rejects before it assigns the handle
LaunchFail(c) ==
  /\ calls[c].pc = "launching"
  /\ ThrowBeforePage(c, "launch")
  /\ UNCHANGED <<browserInstance, sinceLastUsed, browsers, timers>>
  /\ UNCHANGED NotBrowser

NewPageOk(c) ==
  /\ calls[c].pc = "newPage"
  /\ browsers[calls[c].browser] = "running"
  /\ calls' = [calls EXCEPT ![c] = [@ EXCEPT !.pc = "goto", !.page = TRUE]]
  /\ UNCHANGED <<browserInstance, sinceLastUsed, browsers, timers>>
  /\ UNCHANGED NotBrowser

NewPageFail(c) ==
  /\ calls[c].pc = "newPage"
  /\ ThrowBeforePage(c, "newPage")
  /\ UNCHANGED <<browserInstance, sinceLastUsed, browsers, timers>>
  /\ UNCHANGED NotBrowser

\* setCookie, setUserAgent and page.goto resolve and handleConsentPage
\* returns (it swallows every error and the timeout of its navigation
\* wait); the page is then on the URL u. The expanding variant stops here
\* when u is not on Google Maps.
GotoOk(c) ==
  /\ calls[c].pc = "goto"
  /\ browsers[calls[c].browser] = "running"
  /\ \E u \in FinalUrls \cup {""} :
       /\ calls[c].kind = "scrape" => u = ""
       /\ calls[c].kind = "expand" => u \in FinalUrls
       /\ IF calls[c].kind = "expand" /\ ~LeadsToGoogleMaps(u)
          THEN calls' = [calls EXCEPT ![c] =
                 [@ EXCEPT !.pc = "done", !.page = PageAfterExit(c, "return"),
                           !.browser = IF PageAfterExit(c, "return")
                                       THEN calls[c].browser ELSE NoBrowser,
                           !.url = u, !.exit = "wrongUrl"]]
          ELSE calls' = [calls EXCEPT ![c] = [@ EXCEPT !.pc = "extract", !.url = u]]
  /\ UNCHANGED <<browserInstance, sinceLastUsed, browsers, timers>>
  /\ UNCHANGED NotBrowser

\* page.goto rejects: the 30 s timeout, a network error, a lost browser
GotoFail(c) ==
  /\ calls[c].pc = "goto"
  /\ LeavePage(c, "throw", "goto")
  /\ UNCHANGED <<browserInstance, sinceLastUsed, browsers, timers>>
  /\ UNCHANGED NotBrowser

\* the waits for h1 and for the address element end (found or timed out,
\* both tolerated) and page.evaluate returns the data
ExtractOk(c) ==
  /\ calls[c].pc = "extract"
  /\ browsers[calls[c].browser] = "running"
  /\ LeavePage(c, "return", "ok")
  /\ UNCHANGED <<browserInstance, sinceLastUsed, browsers, timers>>
  /\ UNCHANGED NotBrowser

\* page.evaluate rejects
ExtractFail(c) ==
  /\ calls[c].pc = "extract"
  /\ LeavePage(c, "throw", "extract")
  /\ UNCHANGED <<browserInstance, sinceLastUsed, browsers, timers>>
  /\ UNCHANGED NotBrowser

\* the timer armed by the launch of b fires: checkAndClose
CheckAndClose(b) ==
  /\ timers[b] = 0
  /\ IF sinceLastUsed > BROWSER_TIMEOUT /\ Connected
     THEN /\ browsers' = [browsers EXCEPT ![browserInstance] = "closed"]
          /\ calls' = WithoutPagesOf(calls, browserInstance)
          /\ browserInstance' = NoBrowser
          /\ timers' = [timers EXCEPT ![b] = NoTimer]
     ELSE /\ timers' = [timers EXCEPT ![b] = IF Connected THEN CHECK_INTERVAL ELSE NoTimer]
          /\ UNCHANGED <<browserInstance, browsers, calls>>
  /\ UNCHANGED sinceLastUsed
  /\ UNCHANGED NotBrowser

\* a browser process ends on its own (crash, kill): it is disconnected
Disconnect(b) ==
  /\ browsers[b] = "running"
  /\ browsers' = [browsers EXCEPT ![b] = "closed"]
  /\ calls' = WithoutPagesOf(calls, b)
  /\ UNCHANGED <<browserInstance, sinceLastUsed, timers>>
  /\ UNCHANGED NotBrowser

\* CHECK_INTERVAL ms pass; a timer that is due fires first
Tick ==
  /\ \A b \in BrowserIds : timers[b] /= 0
  /\ timers' = [b \in BrowserIds |->
       IF timers[b] = NoTimer THEN NoTimer ELSE timers[b] - CHECK_INTERVAL]
  /\ sinceLastUsed' = Later(sinceLastUsed)
  /\ UNCHANGED <<browserInstance, browsers, calls>>
  /\ UNCHANGED NotBrowser

BrowserInit ==
  /\ browserInstance = NoBrowser
  /\ sinceLastUsed = LongAgo
  /\ browsers = [b \in BrowserIds |-> "none"]
  /\ timers = [b \in BrowserIds |-> NoTimer]
  /\ calls = [c \in Calls |-> IdleCall]


(***************************************************************************)
(* URL classifier (maps.ts) and redirect resolvers                         *)
(***************************************************************************)
UpperLetters == "ABCDEFGHIJKLMNOPQRSTUVWXYZ"
LowerLetters == "abcdefghijklmnopqrstuvwxyz"

IsLower(c) == \E i \in 1..Len(LowerLetters) : Char(LowerLetters, i) = c

LowerChar(c) ==
  IF \E i \in 1..Len(UpperLetters) : Char(UpperLetters, i) = c
  THEN Char(LowerLetters, CHOOSE i \in 1..Len(UpperLetters) : Char(UpperLetters, i) = c)
  ELSE c

\* the text as a pattern with the i flag sees it
RECURSIVE ToLower(_)
ToLower(s) ==
  IF Len(s) = 0 THEN "" ELSE LowerChar(Char(s, 1)) \o ToLower(SubSeq(s, 2, Len(s)))

\* n letters from position i
LettersAt(s, i, n) == i + n - 1 <= Len(s) /\ \A k \in i..(i + n - 1) : IsLower(Char(s, k))

\* (?:com|[a-z]{2,3}(?:\.[a-z]{2})?) at position i of a lower-cased text:
\* the lengths it can match
TldLengths(s, i) ==
  LET letters == {n \in {2, 3} : LettersAt(s, i, n)}
      dotted == {n + 3 : n \in {m \in letters :
                                  MatchAt(s, i + m, ".") /\ LettersAt(s, i + m + 1, 2)}}
  IN (IF MatchAt(s, i, "com") THEN {3} ELSE {}) \cup letters \cup dotted

\* google\.(tld)\/maps somewhere in the text (the optional scheme and www.
\* before it match the empty string)
HasGoogleTldMaps(s) ==
  \E i \in 1..Len(s) :
    /\ MatchAt(s, i, "google.")
    /\ \E n \in TldLengths(s, i + 7) : MatchAt(s, i + 7 + n, "/maps")

\* maps\.google\.(tld) somewhere in the text
HasMapsGoogleTld(s) ==
  \E i \in 1..Len(s) : MatchAt(s, i, "maps.google.") /\ TldLengths(s, i + 12) /= {}

\* (mutant) the patterns without the i flag
isGoogleMapsUrl_CaseSensitive(text) ==
  IF text = "" THEN FALSE
  ELSE \/ HasGoogleTldMaps(Trim(text))
       \/ HasMapsGoogleTld(Trim(text))
       \/ Includes(Trim(text), "goo.gl/maps/")
       \/ Includes(Trim(text), "maps.app.goo.gl/")

isGoogleMapsUrl(text) ==
  IF text = "" THEN FALSE
  ELSE LET trimmedText == ToLower(Trim(text))
       IN \/ HasGoogleTldMaps(trimmedText)
          \/ HasMapsGoogleTld(trimmedText)
          \/ Includes(trimmedText, "goo.gl/maps/")
          \/ Includes(trimmedText, "maps.app.goo.gl/")

\* ---- extractGoogleMapsUrl, detectMapsUrl ----
\* one of the four alternatives of urlPattern, up to its [^\s]*, at
\* position j of the lower-cased text
UrlBodyAt(l, j) ==
  \/ \E w \in {0, Len("www.")} :
       /\ w > 0 => MatchAt(l, j, "www.")
       /\ MatchAt(l, j + w, "google.")
       /\ \E n \in TldLengths(l, j + w + Len("google.")) :
            MatchAt(l, j + w + Len("google.") + n, "/maps")
  \/ MatchAt(l, j, "maps.google.") /\ TldLengths(l, j + Len("maps.google.")) /= {}
  \/ MatchAt(l, j, "goo.gl/maps/")
  \/ MatchAt(l, j, "maps.app.goo.gl/")

\* urlPattern matches at position i, with or without (?:https?:\/\/)
UrlMatchesAt(l, i) ==
  \/ \E scheme \in {"https://", "http://"} :
       MatchAt(l, i, scheme) /\ UrlBodyAt(l, i + Len(scheme))
  \/ UrlBodyAt(l, i)

\* the end of the match: [^\s]* runs up to the next white space
NonSpaceEnd(text, i) ==
  The({IF stops = {} THEN Len(text) ELSE Least(stops) - 1 :
         stops \in {{j \in i..Len(text) : IsSpace(Char(text, j))}}})

\* match[0] of text.match(urlPattern): the leftmost match, or None
UrlMatch(text) ==
  The({IF starts = {} THEN None
       ELSE Some(SubSeq(text, Least(starts), NonSpaceEnd(text, Least(starts)))) :
         starts \in {{i \in 1..Len(text) : UrlMatchesAt(ToLower(text), i)}}})

\* String.prototype.startsWith
StartsWith(s, lit) == MatchAt(s, 1, lit)

\* Ensure URL has protocol
EnsureProtocol(url) ==
  IF ~StartsWith(url, "http://") /\ ~StartsWith(url, "https://")
  THEN "https://" \o url ELSE url

extractGoogleMapsUrl(text) ==
  IF text = "" THEN None
  ELSE The({IF IsSome(match) THEN Some(EnsureProtocol(Val(match))) ELSE None :
              match \in {UrlMatch(text)}})

detectMapsUrl(text) ==
  [isValid |-> isGoogleMapsUrl(text),
   url |-> IF isGoogleMapsUrl(text) THEN extractGoogleMapsUrl(text) ELSE None,
   originalText |-> text]

\* ---- inputs of the model: map URLs and other texts, alone and in prose ----
MapUrlTexts ==
  {"https://www.google.com/maps/place/Big+Ben/@51.5007292,-0.1268141,17z",
   "https://google.com/maps/place/Eiffel+Tower/@48.858844,2.294351",
   "www.google.com/maps/@51.5074,-0.1278,14z",
   "https://maps.google.com/maps?q=London+Eye",
   "http://maps.google.com/?q=Tower+Bridge",
   "maps.google.com/maps/place/Buckingham+Palace",
   "https://www.google.co.uk/maps/place/Westminster+Abbey",
   "https://google.de/maps/@52.520008,13.404954",
   "https://www.google.com.au/maps/place/Sydney+Opera+House",
   "https://goo.gl/maps/ABC123XYZ",
   "goo.gl/maps/DEF456UVW",
   "https://maps.app.goo.gl/ABC123XYZ",
   "maps.app.goo.gl/DEF456UVW",
   "HTTPS://MAPS.APP.GOO.GL/ABC123XYZ",
   "Https://www.google.com/maps/place/Big+Ben",
   "WWW.GOOGLE.COM/MAPS/@51.5074,-0.1278,14z"}

OtherTexts ==
  {"https://www.google.com/search?q=london",
   "https://maps.example.com/location",
   "https://youtube.com/watch?v=123",
   "Just plain text with no URL",
   "https://www.google.com/",
   "google maps"}

Befores == {"", "Meet me here: ", "  "}
Afters == {"", " at noon", "\n"}

ClassifierTexts ==
  {b \o t \o a : b \in Befores, t \in MapUrlTexts \cup OtherTexts, a \in Afters} \cup {""}

DetectMapsUrl ==
  /\ fnPc = "start"
  /\ fnCall.fn = "detectMapsUrl"
  /\ fnPc' = "done"
  /\ fnResult' = detectMapsUrl(fnCall.text)
  /\ UNCHANGED fnCall
  /\ UNCHANGED NotText

ExtractGoogleMapsUrl ==
  /\ fnPc = "start"
  /\ fnCall.fn = "extractGoogleMapsUrl"
  /\ fnPc' = "done"
  /\ fnResult' = extractGoogleMapsUrl(fnCall.text)
  /\ UNCHANGED fnCall
  /\ UNCHANGED NotText

\* /^https?:\/\/(goo\.gl\/maps\/|maps\.app\.goo\.gl\/)/i
IsShortenedPattern(url) ==
  LET u == ToLower(url)
  IN \E scheme \in {"http://", "https://"} :
       /\ MatchAt(u, 1, scheme)
       /\ \/ MatchAt(u, Len(scheme) + 1, "goo.gl/maps/")
          \/ MatchAt(u, Len(scheme) + 1, "maps.app.goo.gl/")

isShortenedMapsUrl(url) == IF url = "" THEN FALSE ELSE IsShortenedPattern(url)

\* /google\..*\/maps|maps\.google\./i, the test of the server action
LooksLikeGoogleMaps(expandedUrl) ==
  LET u == ToLower(expandedUrl)
  IN \/ \E i \in 1..Len(u) :
          /\ MatchAt(u, i, "google.")
          /\ \E j \in (i + 7)..Len(u) :
               /\ MatchAt(u, j, "/maps")
               /\ ~Includes(SubSeq(u, i + 7, j - 1), "\n")
     \/ Includes(u, "maps.google.")

\* expandShortenedUrl (maps.ts), from response.url on: the URL or null
ExpandedOrNull(expandedUrl) ==
  IF isGoogleMapsUrl(expandedUrl) THEN Some(expandedUrl) ELSE None

\* expandShortenedMapsUrl (server action), from response.url on
ActionResult(expandedUrl) ==
  IF ~LooksLikeGoogleMaps(expandedUrl)
  THEN [success |-> FALSE, expandedUrl |-> None,
        error |-> "Redirect did not lead to Google Maps"]
  ELSE [success |-> TRUE, expandedUrl |-> Some(expandedUrl), error |-> ""]

\* ---- inputs of the model ----
ShortInputs ==
  {"https://maps.app.goo.gl/AbC123", "https://goo.gl/maps/xyz",
   "HTTPS://MAPS.APP.GOO.GL/AbC123", "maps.app.goo.gl/AbC123",
   "https://example.com/", ""}

\* where the redirect chain may end
RedirectTargets ==
  {"https://www.google.com/maps/place/Big+Ben/@51.5007,-0.1246,17z",
   "https://maps.google.com/?q=51.5,-0.12",
   "https://www.google.co.uk/maps/place/Big+Ben",
   "https://maps.app.goo.gl/AbC123",
   "https://consent.google.com/m?continue=https://www.google.com/maps/place/Big+Ben",
   "https://www.google.com/intl/en/maps/about/",
   "https://www.google.com/search?q=big+ben",
   "https://example.com/maps",
   ""}

Resolvers == {"expandShortenedUrl", "expandShortenedMapsUrl"}

\* The call starts. The server action returns at once for an empty argument
\* and for one that is no short link; otherwise the HEAD request is sent.
RsStart ==
  /\ rsPc = "start"
  /\ IF rsCall.resolver = "expandShortenedMapsUrl" /\ rsCall.shortUrl = ""
     THEN /\ rsResult' = [success |-> FALSE, expandedUrl |-> None, error |-> "Invalid URL"]
          /\ rsPc' = "done"
     ELSE IF rsCall.resolver = "expandShortenedMapsUrl" /\ ~IsShortenedPattern(rsCall.shortUrl)
     THEN /\ rsResult' = [success |-> TRUE, expandedUrl |-> Some(rsCall.shortUrl), error |-> ""]
          /\ rsPc' = "done"
     ELSE /\ rsPc' = "fetching"
          /\ UNCHANGED rsResult
  /\ UNCHANGED <<rsCall, rsFinal>>
  /\ UNCHANGED NotResolver

\* fetch resolves with the final URL of the redirect chain
RsFetchOk ==
  /\ rsPc = "fetching"
  /\ \E u \in RedirectTargets :
       /\ rsFinal' = Some(u)
       /\ rsResult' = IF rsCall.resolver = "expandShortenedUrl"
                      THEN ExpandedOrNull(u) ELSE ActionResult(u)
  /\ rsPc' = "done"
  /\ UNCHANGED rsCall
  /\ UNCHANGED NotResolver

\* fetch rejects (network error, invalid URL): the catch block
RsFetchFail ==
  /\ rsPc = "fetching"
  /\ rsResult' = IF rsCall.resolver = "expandShortenedUrl" THEN None
                 ELSE [success |-> FALSE, expandedUrl |-> None, error |-> "Failed to expand URL"]
  /\ rsPc' = "done"
  /\ UNCHANGED <<rsCall, rsFinal>>
  /\ UNCHANGED NotResolver

ResolverInit ==
  /\ rsPc = "start"
  /\ rsCall \in [resolver : Resolvers, shortUrl : ShortInputs]
  /\ rsFinal = None
  /\ rsResult = None

ResolverIdle ==
  /\ rsPc = "done"
  /\ rsCall = [resolver |-> "expandShortenedUrl", shortUrl |-> ""]
  /\ rsFinal = None
  /\ rsResult = None

(***************************************************************************)
(* Pattern matcher: extractCoordinatesFromUrl (maps.ts)                    *)
(***************************************************************************)
\* (-?\d+\.?\d*) at position i: the length of the greedy match, 0 when the
\* group does not match there. What follows the group in every pattern is a
\* literal that is neither a digit nor a dot, or the end of the pattern, so
\* backtracking never finds a match the greedy one misses.
NumberLength(s, i) ==
  LET p == IF MatchAt(s, i, "-") THEN i + 1 ELSE i
      nInt == IF p > Len(s) THEN 0 ELSE DigitRun(s, p)
      q == p + nInt
      dot == IF MatchAt(s, q, ".") THEN 1 ELSE 0
      nFrac == IF q + dot > Len(s) THEN 0 ELSE DigitRun(s, q + dot)
  IN IF nInt = 0 THEN 0 ELSE (q - i) + dot + nFrac

\* prefix(-?\d+\.?\d*)sep(-?\d+\.?\d*) at position i: the two groups and
\* the position after the match, or None
PairAt(s, i, prefix, sep) ==
  LET a == i + Len(prefix)
      la == NumberLength(s, a)
      b == a + la + Len(sep)
      lb == NumberLength(s, b)
  IN IF MatchAt(s, i, prefix) /\ la > 0 /\ MatchAt(s, a + la, sep) /\ lb > 0
     THEN Some([first |-> SubSeq(s, a, a + la - 1),
                second |-> SubSeq(s, b, b + lb - 1),
                next |-> b + lb])
     ELSE None

\* the leftmost match at or after position from of the pattern with one of
\* the prefixes, or None
PairFrom(s, from, prefixes, sep) ==
  LET hits == {i \in from..Len(s) : \E pre \in prefixes : IsSome(PairAt(s, i, pre, sep))}
  IN IF hits = {} THEN None
     ELSE LET i == CHOOSE h \in hits : \A k \in hits : h <= k
              pre == CHOOSE x \in prefixes : IsSome(PairAt(s, i, x, sep))
          IN PairAt(s, i, pre, sep)

\* String.prototype.match of a pattern without the g flag
FirstPair(s, prefixes, sep) == PairFrom(s, 1, prefixes, sep)

\* [...url.matchAll(bangPattern)]: the matches from left to right
RECURSIVE BangMatchesFrom(_, _)
BangMatchesFrom(url, from) ==
  The({IF ~IsSome(m) THEN <<>> ELSE <<Val(m)>> \o BangMatchesFrom(url, Val(m).next) :
         m \in {PairFrom(url, from, {"!3d"}, "!4d")}})

\* the pair of numbers of a match, each parsed by parseFloat
ParsedPair(m) == [lat |-> ParseFloat(m.first), lng |-> ParseFloat(m.second)]

Degrees(n) == n * FloatScale

\* (mutant) only the longitude is tested against its range
isValidCoordinate_LngOnly(lat, lng) ==
  /\ IsSome(lat)
  /\ IsSome(lng)
  /\ Val(lng) >= Degrees(0 - 180)
  /\ Val(lng) <= Degrees(180)

isValidCoordinate(lat, lng) ==
  /\ IsSome(lat)
  /\ IsSome(lng)
  /\ Val(lat) >= Degrees(0 - 90)
  /\ Val(lat) <= Degrees(90)
  /\ Val(lng) >= Degrees(0 - 180)
  /\ Val(lng) <= Degrees(180)

Abs(n) == IF n < 0 THEN 0 - n ELSE n

\* 0.0001 degrees
ViewportTolerance == FloatScale \div 10000

\* { lat, lng } of a parsed pair
CoordsOf(c) == [lat |-> Val(c.lat), lng |-> Val(c.lng)]

\* the candidate of a match: { lat, lng } if isValidCoordinate accepts the
\* parsed pair, None if not
Candidate(m) ==
  The({IF isValidCoordinate(c.lat, c.lng) THEN Some(CoordsOf(c)) ELSE None :
         c \in {ParsedPair(m)}})

\* the candidates of a list of matches
Candidates(matches) == [k \in 1..Len(matches) |-> Candidate(matches[k])]

\* after the loop: bangMatches[0], if it is valid
BangFallback(candidates) == candidates[1]

\* more than the tolerance apart in latitude or in longitude
Differs(c, atCoords) ==
  \/ Abs(c.lat - atCoords.lat) > ViewportTolerance
  \/ Abs(c.lng - atCoords.lng) > ViewportTolerance

\* the loop over the matches returns the first valid pair that differs from
\* the @ pair (any valid pair when there is no @ pair); then the fallback
BangLoop(candidates, atCoords) ==
  LET returned == {k \in 1..Len(candidates) :
                     /\ IsSome(candidates[k])
                     /\ IsSome(atCoords) => Differs(Val(candidates[k]), Val(atCoords))}
  IN IF Len(candidates) = 0 THEN None
     ELSE IF returned /= {}
     THEN candidates[CHOOSE k \in returned : \A j \in returned : k <= j]
     ELSE BangFallback(candidates)

\* atCoords: the first @ pair, parsed but not validated
AtCoords(url) ==
  The({IF IsSome(atMatch) THEN Some(CoordsOf(ParsedPair(Val(atMatch)))) ELSE None :
         atMatch \in {FirstPair(url, {"@"}, ",")}})

\* pattern 1, !3d..!4d..
BangCoordinates(url) ==
  The({BangLoop(candidates, atCoords) :
         candidates \in {Candidates(BangMatchesFrom(url, 1))},
         atCoords \in {AtCoords(url)}})

\* patterns 2 to 5: the first match of the pattern, if it is valid
SingleCoordinates(url, prefixes) ==
  The({IF IsSome(m) THEN Candidate(Val(m)) ELSE None :
         m \in {FirstPair(url, prefixes, ",")}})

QPrefixes == {"?q=", "&q="}
LlPrefixes == {"?ll=", "&ll="}
AtPrefixes == {"@"}
CenterPrefixes == {"?center=", "&center="}

\* the patterns after the first, in the order the code tries them
LaterPatterns == <<QPrefixes, LlPrefixes, AtPrefixes, CenterPrefixes>>

RECURSIVE FirstOfLater(_, _)
FirstOfLater(url, k) ==
  IF k > Len(LaterPatterns) THEN None
  ELSE The({IF IsSome(found) THEN found ELSE FirstOfLater(url, k + 1) :
              found \in {SingleCoordinates(url, LaterPatterns[k])}})

extractCoordinatesFromUrl(url) ==
  IF url = "" THEN None
  ELSE The({IF IsSome(found) THEN found ELSE FirstOfLater(url, 1) :
              found \in {BangCoordinates(url)}})

\* ---- inputs of the model: a place URL put together from its parts ----
AtParts ==
  {"", "/@51.5007,-0.1246,17z", "/@51.50071,-0.1246,17z", "/@95.0,-0.1246,3z"}

DataParts ==
  {"", "/data=!3d51.5007!4d-0.1246", "/data=!3d48.8584!4d2.2945",
   "/data=!3d95.5!4d0!3d51.5007!4d-0.1246",
   "/data=!3d51.5007!4d-0.1246!3d48.8584!4d2.2945",
   "/data=!3d91!4d181"}

QueryParts ==
  {"", "?q=-33.8568,151.2153", "?q=123,456&ll=40.7128,-74.006",
   "?center=12.,7", "?q=Big+Ben"}

CoordinateUrls ==
  {"https://www.google.com/maps/place/Big+Ben" \o a \o d \o q :
     a \in AtParts, d \in DataParts, q \in QueryParts} \cup {"", "51.5007,-0.1246"}

ExtractCoordinates ==
  /\ fnPc = "start"
  /\ fnCall.fn = "extractCoordinatesFromUrl"
  /\ fnPc' = "done"
  /\ fnResult' = extractCoordinatesFromUrl(fnCall.text)
  /\ UNCHANGED fnCall
  /\ UNCHANGED NotText

TextIdle ==
  /\ fnPc = "done"
  /\ fnCall = [fn |-> "none", text |-> ""]
  /\ fnResult = None

(***************************************************************************)
(* Pattern matcher: extractPlaceNameFromUrl (maps.ts)                      *)
(***************************************************************************)
HexDigits == "0123456789abcdef"

\* the value of a hexadecimal digit, in either case; -1 for another character
HexVal(c) ==
  The({IF at = {} THEN 0 - 1 ELSE Least(at) - 1 :
         at \in {{k \in 1..Len(HexDigits) : Char(HexDigits, k) = LowerChar(c)}}})

\* the printable characters of ASCII from code 32 to code 95, and the
\* small letters from code 97
AsciiLow ==
  " !" \o "\"" \o "#$%&'()*+,-./0123456789:;<=>?@ABCDEFGHIJKLMNOPQRSTUVWXYZ[" \o
  "\\" \o "]^_"

AsciiHigh == "abcdefghijklmnopqrstuvwxyz{|}~"

\* a character that is not in the alphabet of the model (a control
\* character, the grave accent, or a character outside ASCII other than
\* the one of Utf8Char)
OtherChar == "\t"

\* the character of a code below 128
AsciiChar(code) ==
  IF code >= 32 /\ code <= 95 THEN Char(AsciiLow, code - 31)
  ELSE IF code >= 97 /\ code <= 126 THEN Char(AsciiHigh, code - 96)
  ELSE IF code = 10 THEN "\n"
  ELSE OtherChar

\* the byte of the escape %XX at position i, or -1 when there is no escape
EscapeAt(s, i) ==
  IF MatchAt(s, i, "%") /\ i + 2 <= Len(s)
     /\ HexVal(Char(s, i + 1)) >= 0 /\ HexVal(Char(s, i + 2)) >= 0
  THEN 16 * HexVal(Char(s, i + 1)) + HexVal(Char(s, i + 2))
  ELSE 0 - 1

\* the number of bytes of the UTF-8 sequence that starts with byte b; 0
\* when b cannot start one
Utf8Length(b) ==
  IF b < 128 THEN 1
  ELSE IF b >= 194 /\ b <= 223 THEN 2
  ELSE IF b >= 224 /\ b <= 239 THEN 3
  ELSE IF b >= 240 /\ b <= 244 THEN 4
  ELSE 0

IsContinuation(b) == b >= 128 /\ b <= 191

\* the character of a UTF-8 sequence of n bytes that starts at escape i
Utf8Char(s, i, n) ==
  IF n = 1 THEN AsciiChar(EscapeAt(s, i))
  ELSE IF n = 2 /\ EscapeAt(s, i) = 195 /\ EscapeAt(s, i + 3) = 169 THEN "é"
  ELSE OtherChar

\* decodeURIComponent: the decoded string, or None when it throws URIError
\* (a % without two hexadecimal digits, or escapes that are not UTF-8)
RECURSIVE decodeURIComponent(_)
decodeURIComponent(s) ==
  IF s = "" THEN Some("")
  ELSE IF Char(s, 1) /= "%"
  THEN The({IF IsSome(rest) THEN Some(Char(s, 1) \o Val(rest)) ELSE None :
              rest \in {decodeURIComponent(SubSeq(s, 2, Len(s)))}})
  ELSE The({IF n = 0 \/ \E k \in 1..(n - 1) : ~IsContinuation(EscapeAt(s, 1 + 3 * k))
            THEN None
            ELSE The({IF IsSome(rest) THEN Some(Utf8Char(s, 1, n) \o Val(rest)) ELSE None :
                        rest \in {decodeURIComponent(SubSeq(s, 3 * n + 1, Len(s)))}}) :
              n \in {IF EscapeAt(s, 1) < 0 THEN 0 ELSE Utf8Length(EscapeAt(s, 1))}})

\* String.prototype.replace(/\+/g, ' ')
RECURSIVE PlusToSpace(_)
PlusToSpace(s) ==
  IF s = "" THEN ""
  ELSE (IF Char(s, 1) = "+" THEN " " ELSE Char(s, 1)) \o PlusToSpace(SubSeq(s, 2, Len(s)))

\* the length of the run of characters from position i that are none of stops
RunLength(s, i, stops) ==
  The({IF ends = {} THEN Len(s) - i + 1 ELSE Least(ends) - i :
         ends \in {{j \in i..Len(s) : Char(s, j) \in stops}}})

\* match[1] of url.match(/\/place\/([^/@]+)/i): the group of the leftmost
\* match, or None
PlaceMatch(url) ==
  The({IF starts = {} THEN None
       ELSE Some(SubSeq(url, Least(starts) + Len("/place/"),
                        Least(starts) + Len("/place/") - 1 +
                          RunLength(url, Least(starts) + Len("/place/"), {"/", "@"}))) :
         starts \in {{i \in 1..Len(url) :
                        /\ MatchAt(ToLower(url), i, "/place/")
                        /\ RunLength(url, i + Len("/place/"), {"/", "@"}) > 0}}})

\* /^\d+$/
AllDigits(s) == Len(s) > 0 /\ \A k \in 1..Len(s) : Char(s, k) \in Digits

\* the test on the decoded and trimmed name
AcceptedName(placeName) ==
  IF Len(placeName) < 2 \/ AllDigits(placeName) THEN None ELSE Some(placeName)

\* the catch block turns the URIError of decodeURIComponent into null
extractPlaceNameFromUrl(url) ==
  IF url = "" THEN None
  ELSE The({IF ~IsSome(match) THEN None
            ELSE The({IF IsSome(decoded) THEN AcceptedName(Trim(Val(decoded))) ELSE None :
                        decoded \in {decodeURIComponent(PlusToSpace(Val(match)))}}) :
              match \in {PlaceMatch(url)}})

\* ---- inputs of the model: a URL with a place part and what follows it ----
PlaceParts ==
  {"", "/place/", "/place/Big+Ben", "/PLACE/Big+Ben", "/place/Eiffel+Tower,+Paris",
   "/place/Tower%20Bridge", "/place/Caf%C3%A9+Nero", "/place/Caf%E9+Nero",
   "/place/1%2b1", "/place/100%", "/place/%zz+Top", "/place/12345", "/place/7",
   "/place/X", "/place/+Big+Ben+", "/place/%20"}

PlaceTails ==
  {"", "/@51.5007,-0.1246,17z", "@51.5007,-0.1246", "/data=!3d51.5007!4d-0.1246",
   "?hl=en", "?q=place_id:ChIJ2dGMjMMEdkgRqVqkuXQkj7c"}

PlaceUrls ==
  {"https://www.google.com/maps" \o p \o t : p \in PlaceParts, t \in PlaceTails} \cup {""}

ExtractPlaceName ==
  /\ fnPc = "start"
  /\ fnCall.fn = "extractPlaceNameFromUrl"
  /\ fnPc' = "done"
  /\ fnResult' = extractPlaceNameFromUrl(fnCall.text)
  /\ UNCHANGED fnCall
  /\ UNCHANGED NotText

(***************************************************************************)
(* cleanPlaceNameForGeocoding (maps.ts)                                    *)
(***************************************************************************)
\* clean.replace(/ - .+$/, ''): cut at the first " - " that is followed, up
\* to the end of the string, by at least one character and no line break
StripDashSuffix(s) ==
  LET hits == {i \in 1..Len(s) :
                 /\ MatchAt(s, i, " - ")
                 /\ i + 3 <= Len(s)
                 /\ ~Includes(SubSeq(s, i + 3, Len(s)), "\n")}
  IN IF hits = {} THEN s
     ELSE SubSeq(s, 1, (CHOOSE i \in hits : \A j \in hits : i <= j) - 1)

\* (mutant) the result is not trimmed
cleanPlaceNameForGeocoding_Untrimmed(name) ==
  IF name = "" THEN None
  ELSE
    LET c1 == IF Includes(name, ",") THEN SplitFirst(name, ",") ELSE name
        c2 == IF Includes(c1, " - ") THEN SplitFirst(c1, " - ") ELSE c1
        c3 == StripDashSuffix(c2)
    IN IF Len(c3) > 0 THEN Some(c3) ELSE None

cleanPlaceNameForGeocoding(name) ==
  IF name = "" THEN None
  ELSE
    LET c1 == IF Includes(name, ",") THEN SplitFirst(name, ",") ELSE name
        c2 == IF Includes(c1, " - ") THEN SplitFirst(c1, " - ") ELSE c1
        c3 == Trim(StripDashSuffix(c2))
    IN IF Len(c3) > 0 THEN Some(c3) ELSE None

\* ---- inputs of the model: a raw name put together from its parts ----
NameHeads == {"", "Lina Stores Soho", " Noble Rot Soho ", "Jean-Georges", "Cafe -"}
NameCategories == {"", " - Italian Restaurant", " - ", " -", " - Wine Bar - Soho"}
NameAddresses == {"", ", 51 Greek St", ",", ", Unit 4 - 6, London"}

RawNames ==
  {h \o c \o a : h \in NameHeads, c \in NameCategories, a \in NameAddresses}

CleanPlaceName ==
  /\ fnPc = "start"
  /\ fnCall.fn = "cleanPlaceNameForGeocoding"
  /\ fnPc' = "done"
  /\ fnResult' = cleanPlaceNameForGeocoding(fnCall.text)
  /\ UNCHANGED fnCall
  /\ UNCHANGED NotText

(***************************************************************************)
(* smartGeocode                                                            *)
(***************************************************************************)
\* a string | null operand of || or if
Truthy(o) == IsSome(o) /\ Val(o) /= ""

\* (mutant) case 2 is taken for every non-null name, the empty one included
SgBranch_NonNull(opts) ==
  IF IsSome(opts.extractedCoordinates) THEN "coords"
  ELSE IF IsSome(opts.urlPlaceName) THEN "name"
  ELSE "none"

\* which case of smartGeocode a call takes
SgBranch(opts) ==
  IF IsSome(opts.extractedCoordinates) THEN "coords"
  ELSE IF Truthy(opts.urlPlaceName) THEN "name"
  ELSE "none"

\* (mutant) case 1 returns the position of the reverse-geocoded record
CoordsResult_GeocodedPosition(urlPlaceName, coords, reverseResult) ==
  [name |-> IF Truthy(urlPlaceName) THEN Val(urlPlaceName)
            ELSE IF IsSome(reverseResult) /\ Val(reverseResult).name /= ""
                 THEN Val(reverseResult).name
            ELSE "Unknown Place",
   address |-> IF IsSome(reverseResult) /\ Truthy(Val(reverseResult).address)
               THEN Val(reverseResult).address
               ELSE Some("Address not available"),
   lat |-> IF IsSome(reverseResult) THEN Val(reverseResult).lat ELSE Some(coords.lat),
   lng |-> IF IsSome(reverseResult) THEN Val(reverseResult).lng ELSE Some(coords.lng),
   source |-> "url_coords",
   placeInfo |-> reverseResult]

\* (mutant) case 1 prefers the reverse-geocoded name to the URL name
CoordsResult_GeocodedName(urlPlaceName, coords, reverseResult) ==
  [name |-> IF IsSome(reverseResult) /\ Val(reverseResult).name /= ""
            THEN Val(reverseResult).name
            ELSE IF Truthy(urlPlaceName) THEN Val(urlPlaceName)
            ELSE "Unknown Place",
   address |-> IF IsSome(reverseResult) /\ Truthy(Val(reverseResult).address)
               THEN Val(reverseResult).address
               ELSE Some("Address not available"),
   lat |-> Some(coords.lat),
   lng |-> Some(coords.lng),
   source |-> "url_coords",
   placeInfo |-> reverseResult]

\* the value returned in case 1
CoordsResult(urlPlaceName, coords, reverseResult) ==
  [name |-> IF Truthy(urlPlaceName) THEN Val(urlPlaceName)
            ELSE IF IsSome(reverseResult) /\ Val(reverseResult).name /= ""
                 THEN Val(reverseResult).name
            ELSE "Unknown Place",
   address |-> IF IsSome(reverseResult) /\ Truthy(Val(reverseResult).address)
               THEN Val(reverseResult).address
               ELSE Some("Address not available"),
   lat |-> Some(coords.lat),
   lng |-> Some(coords.lng),
   source |-> "url_coords",
   placeInfo |-> reverseResult]

\* the value returned in case 2 when a lookup succeeded
ForwardResult(urlPlaceName, forwardResult) ==
  [name |-> urlPlaceName,
   address |-> forwardResult.address,
   lat |-> forwardResult.lat,
   lng |-> forwardResult.lng,
   source |-> "forward_geocode",
   placeInfo |-> Some(forwardResult)]

\* (mutant) the second lookup is made whenever cleaning yields a name
RetryWithCleaned_Always(urlPlaceName) ==
  IsSome(cleanPlaceNameForGeocoding(urlPlaceName))

\* the guard of the second lookup
RetryWithCleaned(urlPlaceName) ==
  LET cleanedName == cleanPlaceNameForGeocoding(urlPlaceName)
  IN IsSome(cleanedName) /\ Val(cleanedName) /= urlPlaceName

Request(kind, arg, at) == [kind |-> kind, arg |-> arg, at |-> at]

\* ---- inputs of the model ----
LondonEye == [lat |-> Val(ParseFloat("51.5033")), lng |-> Val(ParseFloat("-0.1195"))]
NullIsland == [lat |-> 0, lng |-> 0]

SgNames ==
  {None, Some(""), Some("Big Ben"), Some("Cafe, Soho"), Some(", Soho"),
   Some("Lina Stores Soho - Italian Restaurant, 51 Greek St")}

SgOptions ==
  [urlPlaceName : SgNames, extractedCoordinates : {None, Some(LondonEye), Some(NullIsland)}]

Westminster ==
  [NoPlace EXCEPT !.name = "Elizabeth Tower", !.hasAddress = TRUE,
                  !.road = "Bridge Street", !.city = "London",
                  !.display_name = Some("Elizabeth Tower, Bridge Street, London"),
                  !.lat = Some("51.5007"), !.lon = Some("-0.1246")]

Unnamed ==
  [NoPlace EXCEPT !.display_name = Some("Soho, London"),
                  !.lat = Some("51.5136"), !.lon = Some("-0.1365")]

Failures ==
  {[outcome |-> o, body |-> <<>>] : o \in {"network_error", "http_error", "bad_json"}}

\* a reverse answer has one object: a place, or an error object without
\* any of the place's fields
ReverseResponses ==
  Failures \cup {[outcome |-> "ok", body |-> b] : b \in {Westminster, Unnamed, NoPlace}}

ForwardResponses ==
  Failures \cup {[outcome |-> "ok", body |-> l] : l \in {<<>>, <<Westminster>>, <<Unnamed>>}}

\* how long one request takes, in milliseconds
Latencies == {300, 1200}

\* ---- the call ----
SgStart ==
  /\ sgPc = "start"
  /\ CASE SgBranch(options) = "coords" ->
            /\ requests' = Append(requests,
                 Request("reverse", Val(options.extractedCoordinates), now))
            /\ sgPc' = "reverse"
            /\ UNCHANGED sgResult
       [] SgBranch(options) = "name" ->
            /\ requests' = Append(requests,
                 Request("forward", Val(options.urlPlaceName), now))
            /\ sgPc' = "forward1"
            /\ UNCHANGED sgResult
       [] SgBranch(options) = "none" ->
            /\ sgResult' = None
            /\ sgPc' = "done"
            /\ UNCHANGED requests
  /\ UNCHANGED <<options, returns, now>>
  /\ UNCHANGED NotGeo

SgReverseReturns ==
  /\ sgPc = "reverse"
  /\ \E resp \in ReverseResponses, d \in Latencies :
       LET coords == Val(options.extractedCoordinates)
           reverseResult == reverseGeocode(coords, resp)
       IN /\ now' = now + d
          /\ returns' = Append(returns, reverseResult)
          /\ sgResult' = Some(CoordsResult(options.urlPlaceName, coords, reverseResult))
          /\ sgPc' = "done"
  /\ UNCHANGED <<options, requests>>
  /\ UNCHANGED NotGeo

SgForwardReturns ==
  /\ sgPc = "forward1"
  /\ \E resp \in ForwardResponses, d \in Latencies :
       LET urlPlaceName == Val(options.urlPlaceName)
           forwardResult == forwardGeocode(urlPlaceName, resp)
       IN /\ now' = now + d
          /\ returns' = Append(returns, forwardResult)
          /\ IF ~IsSome(forwardResult) /\ RetryWithCleaned(urlPlaceName)
             THEN /\ requests' = Append(requests,
                       Request("forward", Val(cleanPlaceNameForGeocoding(urlPlaceName)), now'))
                  /\ sgPc' = "forward2"
                  /\ UNCHANGED sgResult
             ELSE /\ sgResult' = IF IsSome(forwardResult)
                                 THEN Some(ForwardResult(urlPlaceName, Val(forwardResult)))
                                 ELSE None
                  /\ sgPc' = "done"
                  /\ UNCHANGED requests
  /\ UNCHANGED options
  /\ UNCHANGED NotGeo

SgRetryReturns ==
  /\ sgPc = "forward2"
  /\ \E resp \in ForwardResponses, d \in Latencies :
       LET urlPlaceName == Val(options.urlPlaceName)
           forwardResult == forwardGeocode(requests[Len(requests)].arg, resp)
       IN /\ now' = now + d
          /\ returns' = Append(returns, forwardResult)
          /\ sgResult' = IF IsSome(forwardResult)
                         THEN Some(ForwardResult(urlPlaceName, Val(forwardResult)))
                         ELSE None
          /\ sgPc' = "done"
  /\ UNCHANGED <<options, requests>>
  /\ UNCHANGED NotGeo

(***************************************************************************)
(* createPlace and getOrCreateDefaultCollection                            *)
(* (src/src/app/actions/places.ts, src/src/app/actions/collections.ts).    *)
(* Each await of a query is one step of the call; the query itself is one  *)
(* atomic step of the database.  Of the optional columns only lat and lng  *)
(* are kept; the others are stored with the same "|| null" expression.     *)
(***************************************************************************)
DEFAULT_COLLECTION_NAME == "My Places"

MaxCreates == 2
Creators == 1..MaxCreates

NoCollection == 0

\* value || null for a number: 0 and NaN are falsy
NumberOrNull(value) == IF IsSome(value) /\ Val(value) /= 0 THEN value ELSE None

\* the row createPlace inserts (lines 71-86)
PlaceRow(input, finalCollectionId) ==
  [name |-> Trim(input.name),
   lat |-> NumberOrNull(input.lat),
   lng |-> NumberOrNull(input.lng),
   collection_id |-> finalCollectionId]

NoRow == [name |-> "", lat |-> None, lng |-> None, collection_id |-> NoCollection]

Failure(error) == [success |-> FALSE, place |-> NoRow, error |-> error]
Success(row) == [success |-> TRUE, place |-> row, error |-> ""]
Pending == [success |-> FALSE, place |-> NoRow, error |-> "pending"]

Returning(c, result) ==
  creates' = [creates EXCEPT ![c].pc = "done", ![c].result = result]

\* lines 46-65: validation, then the collection given or the default one
CpStart(c) ==
  /\ creates[c].pc = "start"
  /\ LET input == creates[c].input
     IN IF Trim(input.name) = ""
        THEN Returning(c, Failure("Place name is required"))
        ELSE IF input.collectionId /= NoCollection
        THEN creates' = [creates EXCEPT ![c].pc = "insertPlace",
                                        ![c].finalCollectionId = input.collectionId]
        ELSE creates' = [creates EXCEPT ![c].pc = "select"]
  /\ UNCHANGED <<collections, places>>
  /\ UNCHANGED NotStore

\* collections.ts 116-131: the oldest collection, if there is one
CpSelect(c) ==
  /\ creates[c].pc = "select"
  /\ IF Len(collections) > 0
     THEN creates' = [creates EXCEPT ![c].pc = "insertPlace", ![c].finalCollectionId = 1]
     ELSE creates' = [creates EXCEPT ![c].pc = "insertDefault"]
  /\ UNCHANGED <<collections, places>>
  /\ UNCHANGED NotStore

\* collections.ts 123-126 and places.ts 61-63: the query fails
CpSelectFails(c) ==
  /\ creates[c].pc = "select"
  /\ Returning(c, Failure("Failed to get default collection"))
  /\ UNCHANGED <<collections, places>>
  /\ UNCHANGED NotStore

\* collections.ts 133-152: no collection was found, the default one is made
CpInsertDefault(c) ==
  /\ creates[c].pc = "insertDefault"
  /\ collections' = Append(collections, [name |-> DEFAULT_COLLECTION_NAME])
  /\ creates' = [creates EXCEPT ![c].pc = "insertPlace",
                                ![c].finalCollectionId = Len(collections) + 1]
  /\ UNCHANGED places
  /\ UNCHANGED NotStore

\* collections.ts 147-150 and places.ts 61-63: the insert fails
CpInsertDefaultFails(c) ==
  /\ creates[c].pc = "insertDefault"
  /\ Returning(c, Failure("Failed to get default collection"))
  /\ UNCHANGED <<collections, places>>
  /\ UNCHANGED NotStore

\* places.ts 67-95
CpInsertPlace(c) ==
  /\ creates[c].pc = "insertPlace"
  /\ LET row == PlaceRow(creates[c].input, creates[c].finalCollectionId)
     IN /\ places' = Append(places, row)
        /\ Returning(c, Success(row))
  /\ UNCHANGED collections
  /\ UNCHANGED NotStore

\* places.ts 90-93, 96-99
CpInsertPlaceFails(c) ==
  /\ creates[c].pc = "insertPlace"
  /\ Returning(c, Failure("Failed to create place"))
  /\ UNCHANGED <<collections, places>>
  /\ UNCHANGED NotStore

\* ---- inputs of the model ----
Equator == [lat |-> 0, lng |-> Val(ParseFloat("36.8219"))]
Greenwich == [lat |-> Val(ParseFloat("51.4779")), lng |-> 0]
SavedCoordinates == {LondonEye, NullIsland, Equator, Greenwich}

\* the collections made with createCollection before the calls start
StoredCollections == {<<>>, <<[name |-> "Weekend"]>>}

CreateInputs(stored) ==
  {[name |-> n, lat |-> Some(k.lat), lng |-> Some(k.lng), collectionId |-> i] :
     n \in {"Big Ben"}, k \in SavedCoordinates, i \in 0..Len(stored)} \cup
  {[name |-> " ", lat |-> None, lng |-> None, collectionId |-> NoCollection]}

StoreInit ==
  /\ collections \in StoredCollections
  /\ places = <<>>
  /\ creates \in [Creators -> {[pc |-> "start", input |-> i,
                                finalCollectionId |-> NoCollection, result |-> Pending] :
                                 i \in CreateInputs(collections)}]

StoreIdle ==
  /\ collections = <<>>
  /\ places = <<>>
  /\ creates = [c \in Creators |->
                 [pc |-> "done",
                  input |-> [name |-> "", lat |-> None, lng |-> None,
                             collectionId |-> NoCollection],
                  finalCollectionId |-> NoCollection, result |-> Pending]]

(***************************************************************************)
(* handlePaste of Layout (src/src/components/Layout.tsx, lines 126-211)    *)
(***************************************************************************)
NoLocals == [url |-> None, urlPlaceName |-> None, coordinates |-> None]

\* lines 160-172: the place offered when reverse geocoding succeeded
ExtractedPlaceData(url, urlPlaceName, placeInfo) ==
  [name |-> IF Truthy(urlPlaceName) THEN Val(urlPlaceName) ELSE placeInfo.name,
   address |-> placeInfo.address,
   lat |-> placeInfo.lat,
   lng |-> placeInfo.lng,
   googleMapsUrl |-> url,
   urlExtractedName |-> IF Truthy(urlPlaceName) THEN urlPlaceName ELSE None,
   geocodedName |-> Some(placeInfo.name)]

\* lines 183-195: the place offered when it failed and the URL has a name
PartialPlaceData(url, urlPlaceName, coordinates) ==
  [name |-> Val(urlPlaceName),
   address |-> Some("Address not available"),
   lat |-> Some(coordinates.lat),
   lng |-> Some(coordinates.lng),
   googleMapsUrl |-> url,
   urlExtractedName |-> urlPlaceName,
   geocodedName |-> None]

\* lines 128-153: classify the text, read name and coordinates off the URL
PasteStart ==
  /\ psPc = "start"
  /\ \E detection \in {detectMapsUrl(psPaste.text)} :
       IF psPaste.text /= "" /\ detection.isValid /\ Truthy(detection.url)
       THEN \E coordinates \in {extractCoordinatesFromUrl(Val(detection.url))} :
              /\ psLocals' = [url |-> detection.url,
                              urlPlaceName |-> extractPlaceNameFromUrl(Val(detection.url)),
                              coordinates |-> coordinates]
              /\ psPc' = IF IsSome(coordinates) THEN "geocoding" ELSE "done"
       ELSE /\ psPc' = "done"
            /\ UNCHANGED psLocals
  /\ UNCHANGED <<psPaste, psOffer>>
  /\ UNCHANGED NotPaste

\* lines 153-202: reverseGeocode has resolved
PasteGeocoded ==
  /\ psPc = "geocoding"
  /\ \E placeInfo \in {reverseGeocode(Val(psLocals.coordinates), psPaste.resp)} :
       psOffer' =
         IF IsSome(placeInfo)
         THEN Some(ExtractedPlaceData(psLocals.url, psLocals.urlPlaceName, Val(placeInfo)))
         ELSE IF Truthy(psLocals.urlPlaceName)
         THEN Some(PartialPlaceData(psLocals.url, psLocals.urlPlaceName,
                                    Val(psLocals.coordinates)))
         ELSE None
  /\ psPc' = "done"
  /\ UNCHANGED <<psPaste, psLocals>>
  /\ UNCHANGED NotPaste

\* ---- inputs of the model ----
PastedTexts ==
  {"", "lunch at 1pm",
   "https://www.google.com/maps/place/Big+Ben",
   "https://www.google.com/maps/place/Big+Ben/@51.5007,-0.1246,17z",
   "Meet here: https://www.google.com/maps/place/Big+Ben/@51.5007,-0.1246,17z see you",
   "https://www.google.com/maps/@51.5007,-0.1246,17z",
   "https://www.google.com/maps/place/7/@0,0,3z",
   "https://maps.google.com/?q=-33.8568,151.2153",
   "https://www.google.com/maps/place/Tower%20Bridge/data=!3d51.5055!4d-0.0754",
   "https://maps.app.goo.gl/AbC123"}

PasteResponses ==
  ClientFailures \cup {[outcome |-> "ok", body |-> b] : b \in {Westminster, Unnamed, NoPlace}}

PasteInit ==
  /\ psPc = "start"
  /\ psPaste \in [text : PastedTexts, resp : PasteResponses]
  /\ psLocals = NoLocals
  /\ psOffer = None

PasteIdle ==
  /\ psPc = "done"
  /\ psPaste = [text |-> "", resp |-> [outcome |-> "network_error", body |-> <<>>]]
  /\ psLocals = NoLocals
  /\ psOffer = None

(***************************************************************************)
(* The try block of scrapeGoogleMapsPlace (lines 170-322) and of           *)
(* expandAndScrapeGoogleMapsUrl (lines 341-489), for one call that has     *)
(* its page.  The document is a sequence of elements in document order.    *)
(***************************************************************************)
Element ==
  [tag |-> "div", itemId |-> "", inAdSection |-> FALSE, ariaLabel |-> None,
   tooltip |-> None, ariaHidden |-> FALSE, href |-> None, text |-> ""]

\* element.matches(selector), for the selectors the two scrapers use
Matches(e, selector) ==
  CASE selector = "h1" -> e.tag = "h1"
    [] selector = "button[data-item-id=\"address\"]" ->
         e.tag = "button" /\ e.itemId = "address"
    [] selector = "[data-item-id=\"address\"]" -> e.itemId = "address"
    [] selector = "div[data-section-id=\"ad\"] button" ->
         e.tag = "button" /\ e.inAdSection
    [] selector = "button[aria-label*=\"Address\"]" ->
         e.tag = "button" /\ IsSome(e.ariaLabel) /\ Includes(Val(e.ariaLabel), "Address")
    [] selector = "button[aria-label*=\"address\"]" ->
         e.tag = "button" /\ IsSome(e.ariaLabel) /\ Includes(Val(e.ariaLabel), "address")
    [] selector = "[data-tooltip*=\"address\" i]" ->
         IsSome(e.tooltip) /\ Includes(ToLower(Val(e.tooltip)), "address")
    [] selector = "button[aria-label]" -> e.tag = "button" /\ IsSome(e.ariaLabel)
    [] selector = "span[aria-hidden=\"true\"]" -> e.tag = "span" /\ e.ariaHidden
    [] selector = "button[data-item-id^=\"phone\"]" ->
         e.tag = "button" /\ StartsWith(e.itemId, "phone")
    [] selector = "a[data-item-id=\"authority\"]" ->
         e.tag = "a" /\ e.itemId = "authority"
    [] selector = "button[data-item-id^=\"oh\"]" ->
         e.tag = "button" /\ StartsWith(e.itemId, "oh")
    [] OTHER -> FALSE

querySelectorAll(doc, selector) == {i \in 1..Len(doc) : Matches(doc[i], selector)}

\* document.querySelector: the first match in document order, or null
querySelector(doc, selector) ==
  The({IF hits = {} THEN None ELSE Some(doc[Least(hits)]) :
         hits \in {querySelectorAll(doc, selector)}})

\* el.textContent?.trim() || null
TrimmedText(el) ==
  IF IsSome(el) /\ Trim(Val(el).text) /= "" THEN Some(Trim(Val(el).text)) ELSE None

HasDigit(text) == \E k \in 1..Len(text) : Char(text, k) \in Digits

\* /\d/, /street|road|lane|ave|blvd/i, /,/
LooksLikeAddress(text) ==
  \/ HasDigit(text)
  \/ \E word \in {"street", "road", "lane", "ave", "blvd"} : Includes(ToLower(text), word)
  \/ Includes(text, ",")

\* the loop over addressSelectors: the text of the first selector whose
\* first element has text that looks like an address
RECURSIVE AddressCascade(_, _)
AddressCascade(doc, selectors) ==
  IF selectors = <<>> THEN None
  ELSE The({IF IsSome(text) /\ LooksLikeAddress(Val(text)) THEN text
            ELSE AddressCascade(doc, Tail(selectors)) :
              text \in {TrimmedText(querySelector(doc, Head(selectors)))}})

\* label.replace(/^address:\s*/i, '').trim()
AddressPart(label) ==
  Trim(IF StartsWith(ToLower(label), "address:")
       THEN SubSeq(label, Len("address:") + 1, Len(label))
       ELSE label)

\* the loop over button[aria-label]
AriaLabelAddress(doc) ==
  The({IF hits = {} THEN None ELSE Some(AddressPart(Val(doc[Least(hits)].ariaLabel))) :
         hits \in {{i \in querySelectorAll(doc, "button[aria-label]") :
                      /\ Includes(ToLower(Val(doc[i].ariaLabel)), "address:")
                      /\ AddressPart(Val(doc[i].ariaLabel)) /= ""}}})

AddressOf(doc, selectors) ==
  The({IF IsSome(found) THEN found ELSE AriaLabelAddress(doc) :
         found \in {AddressCascade(doc, selectors)}})

\* /^\d\.\d$/
IsRating(text) ==
  /\ Len(text) = 3
  /\ Char(text, 1) \in Digits
  /\ Char(text, 2) = "."
  /\ Char(text, 3) \in Digits

RatingOf(doc) ==
  The({IF IsSome(text) /\ IsRating(Val(text)) THEN text ELSE None :
         text \in {TrimmedText(querySelector(doc, "span[aria-hidden=\"true\"]"))}})

WebsiteOf(doc) ==
  The({IF IsSome(link) /\ Truthy(Val(link).href) THEN Val(link).href ELSE None :
         link \in {querySelector(doc, "a[data-item-id=\"authority\"]")}})

ScrapeAddressSelectors ==
  <<"button[data-item-id=\"address\"]", "[data-item-id=\"address\"]",
    "div[data-section-id=\"ad\"] button", "button[aria-label*=\"Address\"]",
    "button[aria-label*=\"address\"]", "[data-tooltip*=\"address\" i]">>

ExpandAddressSelectors ==
  <<"button[data-item-id=\"address\"]", "[data-item-id=\"address\"]",
    "div[data-section-id=\"ad\"] button", "button[aria-label*=\"Address\"]",
    "button[aria-label*=\"address\"]">>

\* page.evaluate of scrapeGoogleMapsPlace (lines 210-298)
ScrapeEvaluate(doc) ==
  [name |-> TrimmedText(querySelector(doc, "h1")),
   address |-> AddressOf(doc, ScrapeAddressSelectors),
   rating |-> RatingOf(doc),
   phone |-> TrimmedText(querySelector(doc, "button[data-item-id^=\"phone\"]")),
   website |-> WebsiteOf(doc),
   openingHours |-> TrimmedText(querySelector(doc, "button[data-item-id^=\"oh\"]"))]

\* page.evaluate of expandAndScrapeGoogleMapsUrl (lines 388-462)
ExpandEvaluate(doc) ==
  [name |-> TrimmedText(querySelector(doc, "h1")),
   address |-> AddressOf(doc, ExpandAddressSelectors),
   rating |-> None,
   phone |-> TrimmedText(querySelector(doc, "button[data-item-id^=\"phone\"]")),
   website |-> WebsiteOf(doc),
   openingHours |-> TrimmedText(querySelector(doc, "button[data-item-id^=\"oh\"]"))]

\* finalUrl.match(/\/place\/([^/@]+)/)
PathPlaceMatch(url) ==
  The({IF starts = {} THEN None
       ELSE Some(SubSeq(url, Least(starts) + Len("/place/"),
                        Least(starts) + Len("/place/") - 1 +
                          RunLength(url, Least(starts) + Len("/place/"), {"/", "@"}))) :
         starts \in {{i \in 1..Len(url) :
                        /\ MatchAt(url, i, "/place/")
                        /\ RunLength(url, i + Len("/place/"), {"/", "@"}) > 0}}})

\* lines 301-315 and 465-479: the address read off the URL path
UrlAddress(url) ==
  The({IF ~IsSome(placeMatch) THEN None
       ELSE The({IF IsSome(urlAddress) /\
                    (HasDigit(Val(urlAddress)) \/ Includes(Val(urlAddress), ","))
                 THEN urlAddress ELSE None :
                   urlAddress \in {decodeURIComponent(PlusToSpace(Val(placeMatch)))}}) :
         placeMatch \in {PathPlaceMatch(url)}})

WithUrlAddress(data, url) ==
  IF ~Truthy(data.address) /\ Includes(url, "/place/") /\ IsSome(UrlAddress(url))
  THEN [data EXCEPT !.address = UrlAddress(url)]
  ELSE data

\* ---- the steps of the try block ----
NoData ==
  [name |-> None, address |-> None, rating |-> None, phone |-> None,
   website |-> None, openingHours |-> None]

NoLog ==
  [gotos |-> 0, consent |-> "none", h1 |-> "none", address |-> "none",
   evaluated |-> FALSE]

ScReturn(outcome, data) == [outcome |-> outcome, data |-> data]

\* a throw inside the try block: scrapeGoogleMapsPlace has no catch, the
\* call rejects; expandAndScrapeGoogleMapsUrl returns a failure object
ScThrow(at) ==
  /\ scPc' = "done"
  /\ scResult' = ScReturn(OutcomeOf(scCall.kind, at), None)

\* (mutant) the timeout of a wait is not caught
AfterSecondaryWait_Uncaught(outcome) ==
  IF outcome = "timeout" THEN "throw" ELSE "continue"

\* await page.waitForSelector(...).catch(() => {}): how the body goes on
\* after a wait that ended with outcome
AfterSecondaryWait(outcome) == "continue"

\* lines 184-187, 354-357: page.goto resolves
ScGoto ==
  /\ scPc = "goto"
  /\ scPc' = "consent"
  /\ scLog' = [scLog EXCEPT !.gotos = @ + 1]
  /\ UNCHANGED <<scCall, scResult>>
  /\ UNCHANGED NotScrape

\* page.goto rejects after its 30 s
ScGotoTimeout ==
  /\ scPc = "goto"
  /\ scLog' = [scLog EXCEPT !.gotos = @ + 1]
  /\ ScThrow("goto")
  /\ UNCHANGED scCall
  /\ UNCHANGED NotScrape

\* lines 75-156: handleConsentPage returns, whatever happened inside:
\* no consent form, consent clicked and navigated, the navigation wait
\* timed out (line 149), or an error (lines 103, 153).  Then, in the
\* expanding variant, the test of the final URL (lines 363-372).
ScConsent ==
  /\ scPc = "consent"
  /\ \E outcome \in {"absent", "accepted", "timeout", "error"} :
       /\ scLog' = [scLog EXCEPT !.consent = outcome]
       /\ IF AfterSecondaryWait(outcome) = "throw"
          THEN ScThrow("wait")
          ELSE IF scCall.kind = "expand" /\ ~LeadsToGoogleMaps(scCall.url)
          THEN /\ scPc' = "done"
               /\ scResult' = ScReturn(OutcomeOf("expand", "wrongUrl"), None)
          ELSE /\ scPc' = "waitH1"
               /\ UNCHANGED scResult
  /\ UNCHANGED scCall
  /\ UNCHANGED NotScrape

\* lines 193, 375: the heading appears within 10 s, or it does not
ScWaitH1 ==
  /\ scPc = "waitH1"
  /\ \E outcome \in {"found", "timeout"} :
       /\ outcome = "found" => querySelectorAll(scCall.doc, "h1") /= {}
       /\ scLog' = [scLog EXCEPT !.h1 = outcome]
       /\ IF AfterSecondaryWait(outcome) = "throw"
          THEN ScThrow("wait")
          ELSE scPc' = "waitAddress" /\ UNCHANGED scResult
  /\ UNCHANGED scCall
  /\ UNCHANGED NotScrape

\* lines 196-203, 378-385: 2.5 s, then the address element within 3 s or not
ScWaitAddress ==
  /\ scPc = "waitAddress"
  /\ \E outcome \in {"found", "timeout"} :
       /\ outcome = "found" =>
            \E k \in 1..3 : querySelectorAll(scCall.doc, ScrapeAddressSelectors[k]) /= {}
       /\ scLog' = [scLog EXCEPT !.address = outcome]
       /\ IF AfterSecondaryWait(outcome) = "throw"
          THEN ScThrow("wait")
          ELSE scPc' = "evaluate" /\ UNCHANGED scResult
  /\ UNCHANGED scCall
  /\ UNCHANGED NotScrape

\* lines 206-318, 388-485: the data is read off the document and the URL
ScEvaluate ==
  /\ scPc = "evaluate"
  /\ scPc' = "done"
  /\ scLog' = [scLog EXCEPT !.evaluated = TRUE]
  /\ scResult' =
       IF scCall.kind = "scrape"
       THEN ScReturn(OutcomeOf("scrape", "ok"),
                     Some(WithUrlAddress(ScrapeEvaluate(scCall.doc), scCall.url)))
       ELSE ScReturn(OutcomeOf("expand", "ok"),
                     Some(WithUrlAddress(ExpandEvaluate(scCall.doc), scCall.url)))
  /\ UNCHANGED scCall
  /\ UNCHANGED NotScrape

\* page.evaluate rejects
ScEvaluateFails ==
  /\ scPc = "evaluate"
  /\ scLog' = [scLog EXCEPT !.evaluated = TRUE]
  /\ ScThrow("extract")
  /\ UNCHANGED scCall
  /\ UNCHANGED NotScrape

\* ---- inputs of the model ----
Heading == [Element EXCEPT !.tag = "h1", !.text = " Big Ben "]
AddressButton ==
  [Element EXCEPT !.tag = "button", !.itemId = "address", !.text = "London SW1A 0AA"]
CopyButton ==
  [Element EXCEPT !.tag = "button", !.itemId = "address", !.text = "Copy"]
SectionButton ==
  [Element EXCEPT !.tag = "button", !.inAdSection = TRUE, !.text = "Bridge Street"]
LabelledButton ==
  [Element EXCEPT !.tag = "button", !.ariaLabel = Some("Address: 10 Downing St ")]
TooltipDiv ==
  [Element EXCEPT !.tooltip = Some("Copy Address"), !.text = "51 Greek St, London"]
RatingSpan == [Element EXCEPT !.tag = "span", !.ariaHidden = TRUE, !.text = "4.6"]
PhoneButton ==
  [Element EXCEPT !.tag = "button", !.itemId = "phone:tel:+442072194272",
                  !.text = "+44 20 7219 4272"]
WebsiteLink ==
  [Element EXCEPT !.tag = "a", !.itemId = "authority",
                  !.href = Some("https://www.parliament.uk/bigben")]
HoursButton == [Element EXCEPT !.tag = "button", !.itemId = "oh", !.text = "Open 24 hours"]

Documents ==
  {<<>>,
   <<Heading>>,
   <<Heading, AddressButton, PhoneButton, WebsiteLink, HoursButton>>,
   <<Heading, RatingSpan, AddressButton>>,
   <<Heading, CopyButton, SectionButton>>,
   <<Heading, CopyButton, LabelledButton>>,
   <<Heading, TooltipDiv>>,
   <<TooltipDiv, LabelledButton>>}

ScrapedUrls ==
  FinalUrls \cup {"https://www.google.com/maps/place/10+Downing+St,+London/@51.5034,-0.1276,17z"}

ScrapeInit ==
  /\ scPc = "goto"
  /\ scCall \in [kind : {"scrape", "expand"}, doc : Documents, url : ScrapedUrls]
  /\ scLog = NoLog
  /\ scResult = ScReturn("none", None)

ScrapeIdle ==
  /\ scPc = "done"
  /\ scCall = [kind |-> "scrape", doc |-> <<>>, url |-> ""]
  /\ scLog = NoLog
  /\ scResult = ScReturn("none", None)

GeoInit ==
  /\ sgPc = "start"
  /\ options \in SgOptions
  /\ sgResult = None
  /\ requests = <<>>
  /\ returns = <<>>
  /\ now = 0

InitGeo == GeoInit /\ BrowserInit /\ ResolverIdle /\ TextIdle /\ ClientIdle /\ StoreIdle /\ PasteIdle /\ ScrapeIdle

NextGeo ==
  \/ SgStart
  \/ SgReverseReturns
  \/ SgForwardReturns
  \/ SgRetryReturns

SpecGeo == InitGeo /\ [][NextGeo]_vars

(***************************************************************************)
(* The browser session manager with its scrape calls                       *)
(***************************************************************************)
GeoIdle ==
  /\ sgPc = "done"
  /\ options = [urlPlaceName |-> None, extractedCoordinates |-> None]
  /\ sgResult = None
  /\ requests = <<>>
  /\ returns = <<>>
  /\ now = 0

InitBrowser == BrowserInit /\ GeoIdle /\ ResolverIdle /\ TextIdle /\ ClientIdle /\ StoreIdle /\ PasteIdle /\ ScrapeIdle

NextBrowser ==
  \/ \E c \in Calls : Acquire(c)
  \/ \E c \in Calls : LaunchOk(c)
  \/ \E c \in Calls : LaunchFail(c)
  \/ \E c \in Calls : NewPageOk(c)
  \/ \E c \in Calls : NewPageFail(c)
  \/ \E c \in Calls : GotoOk(c)
  \/ \E c \in Calls : GotoFail(c)
  \/ \E c \in Calls : ExtractOk(c)
  \/ \E c \in Calls : ExtractFail(c)
  \/ \E b \in BrowserIds : CheckAndClose(b)
  \/ \E b \in BrowserIds : Disconnect(b)
  \/ Tick

SpecBrowser == InitBrowser /\ [][NextBrowser]_vars

\* time passes and a timer that is due runs its callback
SpecBrowserFair ==
  /\ SpecBrowser
  /\ WF_vars(Tick)
  /\ \A b \in BrowserIds : WF_vars(CheckAndClose(b))


(***************************************************************************)
(* The redirect resolvers                                                  *)
(***************************************************************************)
InitResolver == ResolverInit /\ GeoIdle /\ BrowserInit /\ TextIdle /\ ClientIdle /\ StoreIdle /\ PasteIdle /\ ScrapeIdle

NextResolver ==
  \/ RsStart
  \/ RsFetchOk
  \/ RsFetchFail

SpecResolver == InitResolver /\ [][NextResolver]_vars


(***************************************************************************)
(* The text functions of maps.ts                                           *)
(***************************************************************************)
TextCalls ==
  {[fn |-> "extractCoordinatesFromUrl", text |-> t] : t \in CoordinateUrls} \cup
  {[fn |-> "detectMapsUrl", text |-> t] : t \in ClassifierTexts} \cup
  {[fn |-> "extractGoogleMapsUrl", text |-> t] : t \in ClassifierTexts} \cup
  {[fn |-> "extractPlaceNameFromUrl", text |-> t] : t \in PlaceUrls} \cup
  {[fn |-> "cleanPlaceNameForGeocoding", text |-> t] : t \in RawNames}

TextInit ==
  /\ fnPc = "start"
  /\ fnCall \in TextCalls
  /\ fnResult = None

InitText == TextInit /\ GeoIdle /\ BrowserInit /\ ResolverIdle /\ ClientIdle /\ StoreIdle /\ PasteIdle /\ ScrapeIdle

NextText ==
  \/ ExtractCoordinates
  \/ DetectMapsUrl
  \/ ExtractGoogleMapsUrl
  \/ ExtractPlaceName
  \/ CleanPlaceName

SpecText == InitText /\ [][NextText]_vars


(***************************************************************************)
(* The geocoding client                                                    *)
(***************************************************************************)
InitClient == ClientInit /\ GeoIdle /\ BrowserInit /\ ResolverIdle /\ TextIdle /\ StoreIdle /\ PasteIdle /\ ScrapeIdle

NextClient ==
  \/ ReverseGeocode
  \/ ForwardGeocode

SpecClient == InitClient /\ [][NextClient]_vars

(***************************************************************************)
(* createPlace calls running concurrently                                  *)
(***************************************************************************)
InitStore ==
  /\ StoreInit /\ GeoIdle /\ BrowserInit /\ ResolverIdle /\ TextIdle /\ ClientIdle
  /\ PasteIdle /\ ScrapeIdle

NextStore ==
  \E c \in Creators :
    \/ CpStart(c)
    \/ CpSelect(c)
    \/ CpSelectFails(c)
    \/ CpInsertDefault(c)
    \/ CpInsertDefaultFails(c)
    \/ CpInsertPlace(c)
    \/ CpInsertPlaceFails(c)

SpecStore == InitStore /\ [][NextStore]_vars

(***************************************************************************)
(* One paste                                                               *)
(***************************************************************************)
InitPaste ==
  /\ PasteInit /\ GeoIdle /\ BrowserInit /\ ResolverIdle /\ TextIdle /\ ClientIdle
  /\ StoreIdle /\ ScrapeIdle

NextPaste ==
  \/ PasteStart
  \/ PasteGeocoded

SpecPaste == InitPaste /\ [][NextPaste]_vars

(***************************************************************************)
(* The try block of one scrape call                                        *)
(***************************************************************************)
InitScrape ==
  /\ ScrapeInit /\ GeoIdle /\ BrowserInit /\ ResolverIdle /\ TextIdle /\ ClientIdle
  /\ StoreIdle /\ PasteIdle

NextScrape ==
  \/ ScGoto
  \/ ScGotoTimeout
  \/ ScConsent
  \/ ScWaitH1
  \/ ScWaitAddress
  \/ ScEvaluate
  \/ ScEvaluateFails

SpecScrape == InitScrape /\ [][NextScrape]_vars


(***************************************************************************)
(* Claims on smartGeocode, checked under SpecGeo                           *)
(***************************************************************************)
MinIntervalMs == 1000

SgDone == sgPc = "done"
SgCoords == options.extractedCoordinates
SgName == options.urlPlaceName

\* C1: no two geocoding requests of one smartGeocode call start less than
\* one second apart.
C1_RequestsOneSecondApart ==
  \A i, j \in DOMAIN requests :
    i < j => requests[j].at - requests[i].at >= MinIntervalMs

\* C2: a call with coordinates returns a result of source url_coords whose
\* lat and lng are exactly the extracted coordinates, whatever the name is
\* and whatever reverseGeocode returned.
C2_UrlCoordsAuthoritative ==
  (SgDone /\ IsSome(SgCoords)) =>
    /\ IsSome(sgResult)
    /\ Val(sgResult).source = "url_coords"
    /\ Val(sgResult).lat = Some(Val(SgCoords).lat)
    /\ Val(sgResult).lng = Some(Val(SgCoords).lng)

\* a call with coordinates has returned after reverseGeocode gave a record
\* that lies elsewhere
C2_Witness ==
  /\ SgDone /\ IsSome(SgCoords)
  /\ Len(returns) = 1 /\ IsSome(returns[1])
  /\ Val(returns[1]).lat /= Some(Val(SgCoords).lat)

\* C3: with a name and no coordinates the first lookup uses the raw name; a
\* second one is made exactly when the first returned null and the cleaned
\* name exists and differs, and it uses the cleaned name; never more than
\* two. The result is non-null exactly when a lookup returned a record, and
\* then it is that record's address and position under the raw name.
C3_ForwardLookups ==
  (~IsSome(SgCoords) /\ Truthy(SgName)) =>
    LET raw == Val(SgName)
        cleaned == cleanPlaceNameForGeocoding(raw)
    IN /\ Len(requests) <= 2
       /\ \A i \in DOMAIN requests : requests[i].kind = "forward"
       /\ Len(requests) >= 1 => requests[1].arg = raw
       /\ Len(requests) = 2 =>
            /\ ~IsSome(returns[1])
            /\ IsSome(cleaned) /\ Val(cleaned) /= raw
            /\ requests[2].arg = Val(cleaned)
       /\ SgDone =>
            /\ Len(returns) = Len(requests) /\ Len(requests) >= 1
            /\ (Len(requests) = 1 /\ ~IsSome(returns[1])) =>
                 (~IsSome(cleaned) \/ Val(cleaned) = raw)
            /\ IsSome(sgResult) <=> (\E i \in DOMAIN returns : IsSome(returns[i]))
            /\ IsSome(sgResult) =>
                 LET rec == Val(returns[Len(returns)])
                 IN /\ Val(sgResult).source = "forward_geocode"
                    /\ Val(sgResult).name = raw
                    /\ Val(sgResult).address = rec.address
                    /\ Val(sgResult).lat = rec.lat
                    /\ Val(sgResult).lng = rec.lng

\* the lookup of the raw name failed and the lookup of the cleaned name gave
\* the result
C3_Witness ==
  /\ SgDone /\ ~IsSome(SgCoords) /\ Truthy(SgName)
  /\ Len(requests) = 2 /\ requests[2].arg /= Val(SgName)
  /\ IsSome(sgResult)

\* C4: in case 1 the name is the URL name when present, else the
\* reverse-geocoded name when there is a record, else 'Unknown Place'; the
\* address is the reverse-geocoded address when available, else
\* 'Address not available'.
C4_CoordsNameAndAddress ==
  (SgDone /\ IsSome(SgCoords)) =>
    LET rev == returns[1]
    IN /\ Truthy(SgName) => Val(sgResult).name = Val(SgName)
       /\ (~Truthy(SgName) /\ IsSome(rev)) => Val(sgResult).name = Val(rev).name
       /\ (~Truthy(SgName) /\ ~IsSome(rev)) => Val(sgResult).name = "Unknown Place"
       /\ (IsSome(rev) /\ Truthy(Val(rev).address)) =>
            Val(sgResult).address = Val(rev).address
       /\ ~(IsSome(rev) /\ Truthy(Val(rev).address)) =>
            Val(sgResult).address = Some("Address not available")

\* a URL name met a reverse-geocoded record that carries another name
C4_Witness ==
  /\ SgDone /\ IsSome(SgCoords) /\ Truthy(SgName)
  /\ IsSome(returns[1]) /\ Val(returns[1]).name /= Val(SgName)

\* C5: with neither a name nor coordinates the call returns null and issues
\* no geocoding request.
C5_NeitherSignal ==
  (~IsSome(SgCoords) /\ (SgName = None \/ SgName = Some(""))) =>
    /\ requests = <<>>
    /\ sgPc \in {"start", "done"}
    /\ SgDone => sgResult = None

\* a call with an empty name and no coordinates has returned
C5_Witness ==
  SgDone /\ ~IsSome(SgCoords) /\ SgName = Some("")

(***************************************************************************)
(* Claims on the browser session manager and the scrapers, checked under   *)
(* SpecBrowser (C8 under SpecBrowserFair)                                  *)
(***************************************************************************)
Running(b) == browsers[b] = "running"

\* C6: once newPage() has returned a page, the page is closed before the
\* call returns or throws, on every exit path; a call that is over, or has
\* not yet got its page, has no open page.
C6_PageClosedOnEveryExit ==
  \A c \in Calls :
    calls[c].pc \in {"idle", "launching", "newPage", "done"} => ~calls[c].page

\* a call whose navigation failed after its page was opened is over, and no
\* browser has gone (so the page was not closed by the end of its browser)
C6_Witness ==
  /\ \E c \in Calls : calls[c].pc = "done" /\ calls[c].exit = "goto"
  /\ \A b \in BrowserIds : browsers[b] /= "closed"

\* C7: at most one launched browser is alive at any time, and every browser
\* that is running is the one the shared handle refers to.
C7_OneReferencedBrowser ==
  /\ Cardinality({b \in BrowserIds : Running(b)}) <= 1
  /\ \A b \in BrowserIds : Running(b) => browserInstance = b

\* C8: a browser that is connected is eventually closed once acquisitions
\* stop: no browser stays connected for ever unless getBrowser is entered
\* again and again (sinceLastUsed = 0 is the state after an acquisition).
C8_IdleBrowserEventuallyClosed ==
  \A b \in BrowserIds : <>[]Running(b) => []<>(sinceLastUsed = 0)

\* C9: no public entry point ever rejects: a scrape call returns a value, or
\* a failure object.
C9_NoEntryPointRejects ==
  \A c \in Calls : Outcome(c) /= "rejected"

(***************************************************************************)
(* Claims on the redirect resolvers, checked under SpecResolver            *)
(***************************************************************************)
\* the URL a finished call handed to its caller, if any
RsReported ==
  IF rsCall.resolver = "expandShortenedUrl" THEN rsResult
  ELSE IF rsResult.success THEN rsResult.expandedUrl ELSE None

\* C10: a resolver that has followed the redirect chain reports the final
\* URL only when isGoogleMapsUrl accepts it; for every other final URL and
\* for a network error it returns its failure value.
C10_OnlyMapUrlsReported ==
  (rsPc = "done" /\ IsSome(rsFinal)) =>
    /\ IsSome(RsReported) => (RsReported = rsFinal /\ isGoogleMapsUrl(Val(rsFinal)))
    /\ ~isGoogleMapsUrl(Val(rsFinal)) => ~IsSome(RsReported)

(***************************************************************************)
(* Claims on the expanding scraper, checked under SpecBrowser              *)
(***************************************************************************)
\* C11: expandAndScrapeGoogleMapsUrl reports success only when the final
\* URL of the page is accepted by the classifier (isGoogleMapsUrl), and no
\* final URL the classifier accepts, regional map domains included, is
\* rejected as a wrong destination.
C11_SuccessIffClassifierAccepts ==
  \A c \in Calls :
    (calls[c].kind = "expand" /\ calls[c].pc = "done" /\ calls[c].url /= "") =>
      /\ Outcome(c) = "success" => isGoogleMapsUrl(calls[c].url)
      /\ isGoogleMapsUrl(calls[c].url) => calls[c].exit /= "wrongUrl"

(***************************************************************************)
(* Claims on extractCoordinatesFromUrl, checked under SpecText             *)
(***************************************************************************)
CoordsDone == fnPc = "done" /\ fnCall.fn = "extractCoordinatesFromUrl"

\* C12: extractCoordinatesFromUrl returns null or a pair with lat in
\* [-90, 90] and lng in [-180, 180], whichever pattern produced it.
C12_ResultInRange ==
  (CoordsDone /\ IsSome(fnResult)) =>
    /\ Val(fnResult).lat >= Degrees(0 - 90)
    /\ Val(fnResult).lat <= Degrees(90)
    /\ Val(fnResult).lng >= Degrees(0 - 180)
    /\ Val(fnResult).lng <= Degrees(180)

\* a URL whose 3d/4d pair is out of range gave the pair of its q= parameter
C12_Witness ==
  /\ CoordsDone
  /\ Includes(fnCall.text, "!3d91!4d181")
  /\ Includes(fnCall.text, "?q=-33.8568,151.2153")
  /\ fnResult = Some([lat |-> 0 - 3385680, lng |-> 15121530])

\* the valid candidates of the five patterns of a URL, in priority order:
\* every 3d/4d pair, then the q=, ll=, @ and center= pair
ValidCandidates(url) ==
  LET bang == Candidates(BangMatchesFrom(url, 1))
  IN <<{bang[k] : k \in {j \in 1..Len(bang) : IsSome(bang[j])}}>> \o
     [k \in 1..Len(LaterPatterns) |->
        {SingleCoordinates(url, LaterPatterns[k])} \ {None}]

\* C13: the result is a valid candidate of the highest-priority pattern
\* that has one, and null when no pattern has one.
C13_HighestPriorityPattern ==
  CoordsDone =>
    LET valid == ValidCandidates(fnCall.text)
        having == {k \in 1..Len(valid) : valid[k] /= {}}
    IN IF having = {} THEN fnResult = None
       ELSE fnResult \in valid[Least(having)]

\* C14: with 3d/4d pairs and an @ marker, the result is the first valid
\* pair that differs from the @ marker by more than 0.0001 degrees, and the
\* first valid pair when no valid pair differs.
C14_FirstValidBangPair ==
  (CoordsDone /\ IsSome(AtCoords(fnCall.text))) =>
    LET bang == Candidates(BangMatchesFrom(fnCall.text, 1))
        valid == {k \in 1..Len(bang) : IsSome(bang[k])}
        differing == {k \in valid : Differs(Val(bang[k]), Val(AtCoords(fnCall.text)))}
    IN /\ differing /= {} => fnResult = bang[Least(differing)]
       /\ (valid /= {} /\ differing = {}) => fnResult = bang[Least(valid)]

(***************************************************************************)
(* Claims on the classifier, checked under SpecText                        *)
(***************************************************************************)
\* the top-level domains of the map service in the texts of the model
MapTlds == {"com", "co.uk", "de", "com.au"}

\* the text contains, in any letter case, one of the host shapes
\* google.<tld>/maps, maps.google.<tld>, goo.gl/maps/, maps.app.goo.gl/
HasHostShape(text) ==
  \/ \E tld \in MapTlds :
       \/ Includes(ToLower(text), "google." \o tld \o "/maps")
       \/ Includes(ToLower(text), "maps.google." \o tld)
  \/ Includes(ToLower(text), "goo.gl/maps/")
  \/ Includes(ToLower(text), "maps.app.goo.gl/")

DetectDone == fnPc = "done" /\ fnCall.fn = "detectMapsUrl"

\* C15: detectMapsUrl is positive, with a URL, for every text that contains
\* one of the host shapes, and negative, with url null, for every other text.
C15_ClassifierHostShapes ==
  DetectDone =>
    /\ fnResult.isValid <=> HasHostShape(fnCall.text)
    /\ fnResult.isValid <=> IsSome(fnResult.url)
    /\ fnResult.originalText = fnCall.text

\* an upper-case regional URL inside prose was classified as a map URL, and
\* a search URL as none
C15_Witness ==
  /\ DetectDone
  /\ \/ /\ fnCall.text = "Meet me here: https://www.google.co.uk/maps/place/Westminster+Abbey at noon"
        /\ fnResult.isValid
     \/ /\ fnCall.text = "https://www.google.com/search?q=london"
        /\ ~fnResult.isValid

ExtractUrlDone == fnPc = "done" /\ fnCall.fn = "extractGoogleMapsUrl"

HasScheme(url) ==
  StartsWith(ToLower(url), "http://") \/ StartsWith(ToLower(url), "https://")

\* C16: extractGoogleMapsUrl returns the matched substring as it is when it
\* has a scheme, in any letter case, and with https:// before it when it has
\* none: a result never carries two schemes.
C16_ExactlyOneScheme ==
  (ExtractUrlDone /\ IsSome(fnResult)) =>
    /\ HasScheme(Val(fnResult))
    /\ \A scheme \in {"http://", "https://"} :
         StartsWith(ToLower(Val(fnResult)), scheme) =>
           ~HasScheme(SubSeq(Val(fnResult), Len(scheme) + 1, Len(Val(fnResult))))

(***************************************************************************)
(* Claims on the geocoding client, checked under SpecClient                *)
(***************************************************************************)
ClientDone == gcPc = "done" /\ gcCall.fn \in {"reverseGeocode", "forwardGeocode"}

\* C17: a lookup whose request fails (network failure, non-success status,
\* unreadable body) returns null, and so does a forward lookup that got an
\* empty list; the call always returns.
C17_FailuresYieldNull ==
  ClientDone =>
    /\ gcCall.resp.outcome /= "ok" => gcResult = None
    /\ (gcCall.fn = "forwardGeocode" /\ gcCall.resp.body = <<>>) => gcResult = None

\* a reverse lookup answered with a non-success status has returned null
C17_Witness ==
  /\ ClientDone
  /\ gcCall.fn = "reverseGeocode"
  /\ gcCall.resp.outcome = "http_error"
  /\ gcResult = None

\* the answer carries a place: an object with display_name, lat and lon
CarriesPlace(resp) ==
  /\ resp.outcome = "ok"
  /\ resp.body /= <<>>
  /\ LET d == IF gcCall.fn = "forwardGeocode" THEN resp.body[1] ELSE resp.body
     IN IsSome(d.display_name) /\ IsSome(d.lat) /\ IsSome(d.lon)

\* C18: a success answer that carries no result yields null, so a non-null
\* PlaceInfo has a finite lat and lng and a defined address.
C18_NoResultYieldsNull ==
  ClientDone =>
    /\ ~CarriesPlace(gcCall.resp) => gcResult = None
    /\ IsSome(gcResult) =>
         /\ IsSome(Val(gcResult).lat)
         /\ IsSome(Val(gcResult).lng)
         /\ IsSome(Val(gcResult).address)

\* C19: the name of a reverse result is the first non-empty of the name
\* field and the tags amenity, building, shop, tourism, restaurant, cafe,
\* pub, and 'Unnamed Place' when there is none; it is never empty.
C19_ReverseNameOrder ==
  (ClientDone /\ gcCall.fn = "reverseGeocode" /\ IsSome(gcResult)) =>
    LET d == gcCall.resp.body
        order == <<d.name, d.amenity, d.building, d.shop, d.tourism,
                   d.restaurant, d.cafe, d.pub>>
        present == {k \in 1..Len(order) : order[k] /= ""}
    IN /\ Val(gcResult).name /= ""
       /\ Val(gcResult).name =
            IF present = {} THEN "Unnamed Place" ELSE order[Least(present)]

\* a place with no name field, a building tag and an amenity tag got the
\* amenity as its name
C19_Witness ==
  /\ ClientDone /\ gcCall.fn = "reverseGeocode" /\ IsSome(gcResult)
  /\ gcCall.resp.body.name = ""
  /\ gcCall.resp.body.building = "tower"
  /\ gcCall.resp.body.amenity = "clock"
  /\ Val(gcResult).name = "clock"

(***************************************************************************)
(* Claims on extractPlaceNameFromUrl, checked under SpecText               *)
(***************************************************************************)
PlaceNameDone == fnPc = "done" /\ fnCall.fn = "extractPlaceNameFromUrl"

\* the characters that end a segment of the path of a URL
SegmentEnds == {"/", "@", "?", "#"}

\* the path segment after the first /place/ of the URL; None when the URL
\* has no /place/ followed by a segment
PlaceSegment(url) ==
  LET starts == {i \in 1..Len(url) :
                   /\ MatchAt(ToLower(url), i, "/place/")
                   /\ RunLength(url, i + Len("/place/"), SegmentEnds) > 0}
      from == Least(starts) + Len("/place/")
  IN IF starts = {} THEN None
     ELSE Some(SubSeq(url, from, from + RunLength(url, from, SegmentEnds) - 1))

\* C20: the result is the segment after /place/ with '+' replaced by a
\* space, percent-decoded and trimmed, if that has at least 2 characters and
\* is not purely digits; in every other case it is null.
C20_PlaceNameOfSegment ==
  PlaceNameDone =>
    LET segment == PlaceSegment(fnCall.text)
        decoded == decodeURIComponent(PlusToSpace(Val(segment)))
        name == Trim(Val(decoded))
    IN IF IsSome(segment) /\ IsSome(decoded) /\ Len(name) >= 2 /\ ~AllDigits(name)
       THEN fnResult = Some(name)
       ELSE fnResult = None

(***************************************************************************)
(* Claims on cleanPlaceNameForGeocoding, checked under SpecText            *)
(***************************************************************************)
CleanDone == fnPc = "done" /\ fnCall.fn = "cleanPlaceNameForGeocoding"

\* the part of name before its first comma and before its first " - "
BeforeSeparators(name) ==
  LET cuts == {i \in 1..Len(name) : MatchAt(name, i, ",") \/ MatchAt(name, i, " - ")}
  IN IF cuts = {} THEN name ELSE SubSeq(name, 1, Least(cuts) - 1)

\* C21: the result is the part of the name before its first comma and its
\* first " - ", trimmed, or null when that part is empty; a result has no
\* comma and no " - ", and cleaning it again returns it unchanged.
C21_CleanNameIdempotent ==
  CleanDone =>
    /\ fnResult = IF Trim(BeforeSeparators(fnCall.text)) = "" THEN None
                  ELSE Some(Trim(BeforeSeparators(fnCall.text)))
    /\ IsSome(fnResult) =>
         /\ ~Includes(Val(fnResult), ",")
         /\ ~Includes(Val(fnResult), " - ")
         /\ cleanPlaceNameForGeocoding(Val(fnResult)) = fnResult

\* the example of the claim, and a name whose first part needs trimming
C21_Witness ==
  /\ CleanDone
  /\ \/ /\ fnCall.text = "Lina Stores Soho - Italian Restaurant, 51 Greek St"
        /\ fnResult = Some("Lina Stores Soho")
     \/ /\ fnCall.text = " Noble Rot Soho  - Wine Bar - Soho, Unit 4 - 6, London"
        /\ fnResult = Some("Noble Rot Soho")

(***************************************************************************)
(* Claims on createPlace, checked under SpecStore                          *)
(***************************************************************************)
\* the calls that omitted collectionId and stored their place
DefaultedPlaces ==
  {c \in Creators : /\ creates[c].pc = "done"
                    /\ creates[c].result.success
                    /\ creates[c].input.collectionId = NoCollection}

DefaultCollections ==
  {i \in 1..Len(collections) : collections[i].name = DEFAULT_COLLECTION_NAME}

\* C22: under every interleaving of createPlace calls without collectionId
\* at most one default collection is created, and the places of those
\* calls are all in one collection.
C22_OneDefaultCollection ==
  /\ Cardinality(DefaultCollections) <= 1
  /\ \A c, e \in DefaultedPlaces :
       creates[c].result.place.collection_id = creates[e].result.place.collection_id

\* C30: a place is stored with exactly the lat and lng that were given,
\* 0 included.
C30_StoresGivenCoordinates ==
  \A c \in Creators :
    (creates[c].pc = "done" /\ creates[c].result.success) =>
      /\ IsSome(creates[c].input.lat) => creates[c].result.place.lat = creates[c].input.lat
      /\ IsSome(creates[c].input.lng) => creates[c].result.place.lng = creates[c].input.lng

(***************************************************************************)
(* Claims on the paste handler, checked under SpecPaste                    *)
(***************************************************************************)
\* the handler has finished a paste whose URL carries coordinates
PasteWithCoordinates == psPc = "done" /\ IsSome(psLocals.coordinates)

\* what smartGeocode returns for the handler's signals
OrchestratorPlace ==
  CoordsResult(psLocals.urlPlaceName, Val(psLocals.coordinates),
               reverseGeocode(Val(psLocals.coordinates), psPaste.resp))

\* C24: for a paste whose URL yields coordinates the handler offers the
\* place smartGeocode defines: position from the URL, URL name before the
\* geocoded name, and a place also when reverse geocoding fails.
C24_PasteOffersOrchestratorPlace ==
  PasteWithCoordinates =>
    /\ IsSome(psOffer)
    /\ Val(psOffer).lat = OrchestratorPlace.lat
    /\ Val(psOffer).lng = OrchestratorPlace.lng
    /\ Val(psOffer).name = OrchestratorPlace.name

(***************************************************************************)
(* Claims on the try block of a scrape call, checked under SpecScrape      *)
(***************************************************************************)
ScDone == scPc = "done" /\ scLog.gotos > 0

NavigationFailed == scLog.consent = "none"

StoppedAtUrl == scCall.kind = "expand" /\ ~LeadsToGoogleMaps(scCall.url)

\* C23: no timeout of the consent navigation, of the heading wait or of
\* the address wait, and no error in consent handling, fails the call: the
\* extraction runs and its data is what the call produces.  A timeout of
\* page.goto fails the call: nothing is extracted and page.goto is not
\* called again.
C23_SecondaryWaitsTolerated ==
  ScDone =>
    /\ scLog.gotos = 1
    /\ IF NavigationFailed
       THEN /\ ~scLog.evaluated
            /\ scResult.outcome \in {"rejected", "failure"}
            /\ ~IsSome(scResult.data)
       ELSE /\ StoppedAtUrl \/ scLog.evaluated
            /\ scLog.evaluated =>
                 \/ scResult.outcome \in {"data", "success"} /\ IsSome(scResult.data)
                 \/ scResult.outcome \in {"rejected", "failure"} /\ ~IsSome(scResult.data)

\* every secondary wait went wrong and the call still produced its data
C23_Witness ==
  /\ ScDone
  /\ scLog.consent \in {"timeout", "error"}
  /\ scLog.h1 = "timeout"
  /\ scLog.address = "timeout"
  /\ scResult.outcome \in {"data", "success"}
  /\ IsSome(scResult.data)
  /\ IsSome(Val(scResult.data).name)

\* what the other variant reads off the same document and URL
OtherVariantData ==
  WithUrlAddress(IF scCall.kind = "scrape" THEN ExpandEvaluate(scCall.doc)
                 ELSE ScrapeEvaluate(scCall.doc), scCall.url)

\* C25: for the same rendered page and the same final URL the two variants
\* yield the same name, address, rating, phone, website and opening hours.
C25_VariantsExtractAlike ==
  (ScDone /\ IsSome(scResult.data)) => Val(scResult.data) = OtherVariantData

(***************************************************************************)
(* Claims on getBrowser and the idle check, checked under SpecBrowser      *)
(***************************************************************************)
LiveBrowsers == {b \in BrowserIds : browsers[b] = "running"}
PendingTimers == {b \in BrowserIds : timers[b] /= NoTimer}

\* C26: a timer that fires is armed again only while the handle's browser
\* is live, and then, with a single live browser, it is the only
\* idle-check timer pending, also after overlapping launches or a
\* disconnect and a relaunch.
C26_OneTimerPerBrowser ==
  [][\A b \in BrowserIds :
       (timers[b] = 0 /\ timers'[b] > 0) =>
         /\ browserInstance' /= NoBrowser
         /\ browsers'[browserInstance'] = "running"
         /\ Cardinality(LiveBrowsers') <= 1 => PendingTimers' = {b}]_vars

\* a call enters getBrowser
Acquires(c) == calls[c].pc \in {"idle", "done"} /\ calls'[c].pc \notin {"idle", "done"}
\* the launch a call awaited has ended
LaunchEnds(c) == calls[c].pc = "launching" /\ calls'[c].pc /= "launching"
LaunchFailed(c) == LaunchEnds(c) /\ calls'[c].pc = "done"

\* an acquisition launches exactly when the handle is unset or
\* disconnected; on a connected handle it returns that browser
AcquiresAsClaimed(c) ==
  Acquires(c) =>
    /\ calls'[c].pc = IF Connected THEN "newPage" ELSE "launching"
    /\ Connected => calls'[c].browser = browserInstance /\ browsers' = browsers

\* one launch attempt: it yields a new running browser, or the call is over
\* with the error of the launch
LaunchesOnce(c) ==
  LaunchEnds(c) =>
    \/ /\ calls'[c].pc = "newPage"
       /\ browsers[calls'[c].browser] = "none"
       /\ browsers'[calls'[c].browser] = "running"
       /\ browserInstance' = calls'[c].browser
    \/ /\ LaunchFailed(c)
       /\ calls'[c].exit = "launch"
       /\ OutcomeOf(calls'[c].kind, calls'[c].exit) \in {"rejected", "failure"}
       /\ browsers' = browsers
       /\ timers' = timers

\* C27 (as stated): one launch attempt per acquisition, made only on an
\* unset or disconnected handle; a failed launch reaches the caller, arms
\* no timer and leaves the handle unset: not pointing at a dead browser.
C27_FailedLaunchUnsetsHandle ==
  [][\A c \in Calls :
       /\ AcquiresAsClaimed(c)
       /\ LaunchesOnce(c)
       /\ LaunchFailed(c) =>
            \/ browserInstance' = NoBrowser
            \/ browsers'[browserInstance'] = "running"]_vars

\* C27 (amended): as above, but a failed launch leaves the handle as it
\* was: unset, or still referring to the browser it referred to before.
C27_FailedLaunchLeavesHandle ==
  [][\A c \in Calls :
       /\ AcquiresAsClaimed(c)
       /\ LaunchesOnce(c)
       /\ LaunchFailed(c) => browserInstance' = browserInstance]_vars

\* a launch has failed while the handle referred to a disconnected browser,
\* and the next acquisition is launching afresh
C27_Witness ==
  /\ browserInstance /= NoBrowser
  /\ browsers[browserInstance] = "closed"
  /\ \E c, e \in Calls :
       /\ calls[c].pc = "done"
       /\ calls[c].exit = "launch"
       /\ calls[e].pc = "launching"

\* C28: the idle check does not close the browser while a call that has a
\* page of it is still in flight.
C28_NoTeardownUnderScrape ==
  [][\A b \in BrowserIds :
       (browserInstance = b /\ browserInstance' = NoBrowser) =>
         ~\E c \in Calls : calls[c].browser = b /\ calls[c].page]_vars

(***************************************************************************)
(* Claims on the redirect resolvers, checked under SpecResolver            *)
(***************************************************************************)
\* the URL a finished call reported as the expansion, if it reported one
ReportedExpansion ==
  IF rsCall.resolver = "expandShortenedUrl" THEN rsResult
  ELSE IF rsResult.success THEN rsResult.expandedUrl ELSE None

\* C29: when a resolver reports success for a short-link input, the URL it
\* returns is not itself a short link.
C29_ExpansionIsNotShort ==
  (rsPc = "done" /\ isShortenedMapsUrl(rsCall.shortUrl) /\ IsSome(ReportedExpansion)) =>
    ~isShortenedMapsUrl(Val(ReportedExpansion))

====
